---- MODULE Spec2Model ----
(***************************************************************************)
(* LogicGates-Emulator: the signal-propagation engine (propagateCircuit),  *)
(* the Quine-McCluskey minimizer (solveQuineMcCluskey), the circuit        *)
(* generator (generateCircuitFromTerms) and the editor handlers of App     *)
(* that change the circuit model.                                          *)
(*                                                                         *)
(* A node is a record [id, type, state, inputs, height]; a wire is a       *)
(* record [id, sourceNodeId, sourcePinIndex, targetNodeId, targetPinIndex, *)
(* state].  Lists are sequences; JavaScript index i is position i + 1.     *)
(* Ids are positive naturals; the empty string '' is modelled by 0.        *)
(***************************************************************************)
EXTENDS Integers, Sequences, FiniteSets, TLC

VARIABLES
  nodes,            \* App state: CircuitNode[]
  wires,            \* App state: Wire[]
  selectedNodeIds,  \* App state
  selectedWireIds,  \* App state
  contextMenu,      \* App state: 0 (null) or the node id the menu is open on
  numVars,          \* minimizer and synthesis runs: KarnaughModal state
  truthTable,       \* minimizer and synthesis runs: KarnaughModal state
  terms,            \* minimizer and synthesis runs: the terms solveQuineMcCluskey returned
  lastOp,           \* the handler that ran last
  call,             \* the propagateCircuit call of the handler that ran last
  collisions,       \* how many generateId results repeated an id in use
  camera,           \* App state: Camera
  equation,         \* equation runs: the string termsToEquation returned
  request,          \* what the handler that ran last was asked for
  refs              \* App refs: [nodes |-> nodesRef.current, wires |-> wiresRef.current]

vars == <<nodes, wires, selectedNodeIds, selectedWireIds, contextMenu,
          numVars, truthTable, terms, lastOp, call, collisions, camera,
          equation, request, refs>>

-----------------------------------------------------------------------------
(* Program constants *)

MAX_ITERATIONS == 20
PIN_SPACING == 20
MaxVars == 4
MinInputs == 2
MaxInputs == 8
MenuMaxInputs == 32

GateTypes == {"AND", "OR", "NOT", "NAND", "NOR", "XOR",
              "INPUT_SWITCH", "OUTPUT_LAMP", "CLOCK"}

SourceTypes == {"INPUT_SWITCH", "CLOCK"}

VariableInputTypes == {"AND", "OR", "NAND", "NOR", "XOR"}

\* COMPONENT_CONFIGS[type].inputCount
ConfigInputCount(type) ==
  IF type \in SourceTypes THEN 0
  ELSE IF type \in {"NOT", "OUTPUT_LAMP"} THEN 1
  ELSE 2

\* COMPONENT_CONFIGS[type].outputCount
ConfigOutputCount(type) == IF type = "OUTPUT_LAMP" THEN 0 ELSE 1

\* COMPONENT_CONFIGS[type].height
ConfigHeight(type) ==
  IF type \in SourceTypes \cup {"OUTPUT_LAMP"} THEN 50
  ELSE IF type = "NOT" THEN 40
  ELSE 60

-----------------------------------------------------------------------------
(* Bounds of the model *)

MaxNodes == 2        \* editor: elements in the live model when one is placed or duplicated
MaxMerged == 3       \* editor: elements in the live model after a fragment is merged
MaxWires == 2        \* editor: connections in the live model
MaxArity == 3        \* editor: input pins an arity change may reach
MaxSel == 1          \* editor: elements or connections selected at once
MaxCollisions == 1   \* editor: generateId results that repeat an id in use
EditVars == 2        \* editor: variables of a truth table given to the generator
GrowRows == 2        \* grow runs: true rows beside the nine of the base table
ShortVars == 2       \* synthesis runs: characters of a term in the longer sequences
MaxTerms == 2        \* synthesis runs: terms in a sequence
SynthVars == 3       \* synthesis runs: variables of the truth table
PropNodes == 2       \* propagation runs: elements of an arbitrary model
PropWires == 2       \* propagation runs: connections of an arbitrary model
ChainLen == 21       \* propagation runs: gates in a chain behind one switch
LogicLen == 4        \* gate runs: longest input vector
EqVars == 3          \* equation runs: variables of the terms
EqTerms == 2         \* equation runs: terms in the sequence
PermLen == 3         \* order independence: longest list whose every reordering is tried

-----------------------------------------------------------------------------
(* Helpers *)

Range(s) == {s[k] : k \in 1..Len(s)}

SetMax(S) == CHOOSE x \in S : \A y \in S : y <= x

SetMin(S) == CHOOSE x \in S : \A y \in S : x <= y

RECURSIVE Pow2(_)
Pow2(n) == IF n = 0 THEN 1 ELSE 2 * Pow2(n - 1)

\* new Array(n).fill(c), '-'.repeat(n)
Repeat(c, n) == [i \in 1..n |-> c]

\* The positions of a list that satisfy Keep, in order
KeptPositions(s, Keep(_)) ==
  LET K == {k \in 1..Len(s) : Keep(s[k])}
  IN [i \in 1..Cardinality(K) |->
        CHOOSE k \in K : Cardinality({j \in K : j <= k}) = i]

-----------------------------------------------------------------------------
(* circuitEngine.ts: computeNodeLogic *)

\* computeNodeLogic without the return for an empty inputStates
computeNodeLogicUnguarded(node, inputStates) ==
  CASE node.type = "AND"  -> \A i \in 1..Len(inputStates) : inputStates[i]
    [] node.type = "OR"   -> \E i \in 1..Len(inputStates) : inputStates[i]
    [] node.type = "NOT"  -> ~(Len(inputStates) >= 1 /\ inputStates[1])
    [] node.type = "NAND" -> ~(\A i \in 1..Len(inputStates) : inputStates[i])
    [] node.type = "NOR"  -> ~(\E i \in 1..Len(inputStates) : inputStates[i])
    [] node.type = "XOR"  ->
         Cardinality({i \in 1..Len(inputStates) : inputStates[i]}) % 2 = 1
    [] node.type = "INPUT_SWITCH" -> node.state
    [] node.type = "CLOCK" -> node.state
    [] node.type = "OUTPUT_LAMP" -> Len(inputStates) >= 1 /\ inputStates[1]
    [] OTHER -> FALSE

computeNodeLogic(node, inputStates) ==
  IF Len(inputStates) = 0 /\ node.type \notin SourceTypes THEN FALSE
  ELSE CASE node.type = "AND"  -> \A i \in 1..Len(inputStates) : inputStates[i]
         [] node.type = "OR"   -> \E i \in 1..Len(inputStates) : inputStates[i]
         [] node.type = "NOT"  -> ~inputStates[1]
         [] node.type = "NAND" -> ~(\A i \in 1..Len(inputStates) : inputStates[i])
         [] node.type = "NOR"  -> ~(\E i \in 1..Len(inputStates) : inputStates[i])
         [] node.type = "XOR"  ->
              Cardinality({i \in 1..Len(inputStates) : inputStates[i]}) % 2 = 1
         [] node.type = "INPUT_SWITCH" -> node.state
         [] node.type = "CLOCK" -> node.state
         [] node.type = "OUTPUT_LAMP" -> inputStates[1]
         [] OTHER -> FALSE

-----------------------------------------------------------------------------
(* circuitEngine.ts: propagateCircuit *)

\* The objects the call works on.  nodes.map(n => ({ ...n })) and
\* wires.map(w => ({ ...w })) make a new object per record; the spread is
\* shallow, so the inputs array of a copy is still the caller's array until
\* node.inputs is assigned.
\* let nextNodes = nodes: the working list holds the caller's own objects
WorkingNodeAliased(k) == [owner |-> "arg", kind |-> "node", index |-> k]

WorkingNode(k) == [owner |-> "copy", kind |-> "node", index |-> k]

WorkingWire(k) == [owner |-> "copy", kind |-> "wire", index |-> k]

\* const currentInputs = [...node.inputs]: a new array
CurrentInputs(k) == [owner |-> "copy", kind |-> "inputs", index |-> k]

\* nodeMap.get(id): nodeMap.set keeps the last node of the list with that id;
\* 0 stands for undefined
NodeMapGet(ns, id) ==
  LET S == {k \in 1..Len(ns) : ns[k].id = id}
  IN IF S = {} THEN 0 ELSE SetMax(S)

\* The wire update without the guard
SourceGuardMissing(k) == TRUE

\* if (sourceNode)
SourceGuard(k) == k # 0

\* wire.state !== newSignal, inside the guard
WireUnstable(ns, wire) ==
  LET k == NodeMapGet(ns, wire.sourceNodeId)
  IN SourceGuard(k) /\ k # 0 /\ wire.state # ns[k].state

\* reading sourceNode.state when sourceNode is undefined throws a TypeError
WireThrows(ns, wire) ==
  LET k == NodeMapGet(ns, wire.sourceNodeId)
  IN SourceGuard(k) /\ k = 0

UpdateWire(ns, wire) ==
  LET k == NodeMapGet(ns, wire.sourceNodeId)
  IN IF SourceGuard(k) /\ k # 0 THEN [wire EXCEPT !.state = ns[k].state] ELSE wire

\* 1. Update Wires based on Source Nodes
WirePhase(ns, ws) == [k \in 1..Len(ws) |-> UpdateWire(ns, ws[k])]

\* incomingWires.find(w => w.targetPinIndex === i): the first wire of the list
\* that targets pin i of this node; 0 stands for undefined
FindWire(ws, node, i) ==
  LET S == {k \in 1..Len(ws) :
              ws[k].targetNodeId = node.id /\ ws[k].targetPinIndex = i}
  IN IF S = {} THEN 0 ELSE SetMin(S)

\* const signal = wire ? wire.state : false
Signal(ws, node, i) ==
  LET k == FindWire(ws, node, i)
  IN IF k # 0 THEN ws[k].state ELSE FALSE

\* The inputs gathered with one entry per incoming wire
GatherInputsPerWire(ws, node) ==
  [p \in 1..Cardinality({k \in 1..Len(ws) : ws[k].targetNodeId = node.id}) |->
     Signal(ws, node, p - 1)]

\* for (let i = 0; i < currentInputs.length; i++) currentInputs[i] = signal
GatherInputs(ws, node) == [p \in 1..Len(node.inputs) |-> Signal(ws, node, p - 1)]

InputsChanged(ws, node) ==
  /\ node.type \notin SourceTypes
  /\ GatherInputs(ws, node) # node.inputs

\* A node update that never clears stabilityReached
NodeUnstableNever(ws, node) == FALSE

\* node.state !== newOutputState, inside if (inputsChanged)
NodeUnstable(ws, node) ==
  /\ InputsChanged(ws, node)
  /\ node.state # computeNodeLogic(node, GatherInputs(ws, node))

UpdateNode(ws, node) ==
  IF InputsChanged(ws, node)
  THEN [node EXCEPT !.inputs = GatherInputs(ws, node),
                    !.state = computeNodeLogic(node, GatherInputs(ws, node))]
  ELSE node

\* 2. Update Nodes based on Input Wires
NodePhase(ns, ws) == [k \in 1..Len(ns) |-> UpdateNode(ws, ns[k])]

\* The objects one round assigns to
RoundWrites(ns, ws) ==
  LET w2 == WirePhase(ns, ws)
  IN {WorkingWire(k) : k \in {j \in 1..Len(ws) : WireUnstable(ns, ws[j])}}
     \cup {WorkingNode(k) : k \in {j \in 1..Len(ns) : InputsChanged(w2, ns[j])}}
     \cup {CurrentInputs(k) : k \in {j \in 1..Len(ns) : InputsChanged(w2, ns[j])}}

\* One pass in which a node is evaluated as soon as it is reached and the
\* wires it drives are refreshed at once, so that later nodes of the list
\* see a mix of old and new wire states
RECURSIVE InterleavedPass(_, _, _, _)
InterleavedPass(ns, ws, k, unstable) ==
  IF k > Len(ns) THEN [nodes |-> ns, wires |-> ws, unstable |-> unstable]
  ELSE LET n2 == UpdateNode(ws, ns[k])
           ns2 == [ns EXCEPT ![k] = n2]
           ws2 == [j \in 1..Len(ws) |->
                     IF NodeMapGet(ns2, ws[j].sourceNodeId) = k
                     THEN [ws[j] EXCEPT !.state = n2.state] ELSE ws[j]]
       IN InterleavedPass(ns2, ws2, k + 1,
                          unstable \/ n2.state # ns[k].state \/ ws2 # ws)

RoundInterleaved(ns, ws) ==
  LET w2 == WirePhase(ns, ws)
      r == InterleavedPass(ns, w2, 1, w2 # ws)
  IN [nodes |-> r.nodes, wires |-> r.wires,
      stabilityReached |-> ~r.unstable, threw |-> FALSE, written |-> {}]

\* One pass of the while loop body
Round(ns, ws) ==
  LET w2 == WirePhase(ns, ws)
      n2 == NodePhase(ns, w2)
  IN [nodes |-> n2,
      wires |-> w2,
      stabilityReached |->
        /\ \A k \in 1..Len(ws) : ~WireUnstable(ns, ws[k])
        /\ \A k \in 1..Len(ns) : ~NodeUnstable(w2, ns[k]),
      threw |-> \E k \in 1..Len(ws) : WireThrows(ns, ws[k]),
      written |-> RoundWrites(ns, ws)]

\* The loop body run once, whatever it finds
PropagateOnce(ns, ws, iteration, stabilityReached, written) ==
  LET r == Round(ns, ws)
  IN [nodes |-> r.nodes, wires |-> r.wires, iteration |-> iteration + 1,
      stabilityReached |-> r.stabilityReached, threw |-> FALSE,
      written |-> written \cup r.written]

\* while (!stabilityReached && iteration < MAX_ITERATIONS)
RECURSIVE PropagateLoop(_, _, _, _, _)
PropagateLoop(ns, ws, iteration, stabilityReached, written) ==
  IF ~stabilityReached /\ iteration < MAX_ITERATIONS
  THEN LET r == Round(ns, ws)
       IN IF r.threw
          THEN [nodes |-> ns, wires |-> ws, iteration |-> iteration + 1,
                stabilityReached |-> FALSE, threw |-> TRUE, written |-> written]
          ELSE PropagateLoop(r.nodes, r.wires, iteration + 1,
                             r.stabilityReached, written \cup r.written)
  ELSE [nodes |-> ns, wires |-> ws, iteration |-> iteration,
        stabilityReached |-> stabilityReached, threw |-> FALSE,
        written |-> written]

propagateCircuit(ns, ws) == PropagateLoop(ns, ws, 0, FALSE, {})

\* The record of a call kept in the variable call: the arguments, and what
\* the call did besides returning the new lists
CallRecord(ns, ws) ==
  LET res == propagateCircuit(ns, ws)
  IN [made |-> TRUE,
      argNodes |-> ns, argWires |-> ws,
      nodes |-> res.nodes, wires |-> res.wires,
      iteration |-> res.iteration,
      stabilityReached |-> res.stabilityReached,
      threw |-> res.threw,
      written |-> res.written]

NoCall ==
  [made |-> FALSE, argNodes |-> <<>>, argWires |-> <<>>, nodes |-> <<>>,
   wires |-> <<>>, iteration |-> 0, stabilityReached |-> FALSE,
   threw |-> FALSE, written |-> {}]

\* nodesRef and wiresRef hold the nodes and wires of the last render
RefsSynced == refs = [nodes |-> nodes, wires |-> wires]

\* The effects that sync the refs have run after the render that follows a
\* step: useEffect(() => { nodesRef.current = nodes; }, [nodes]) and the same
\* for wires
EffectsFlushed == refs' = [nodes |-> nodes', wires |-> wires']

\* useState<Camera>({ x: 0, y: 0, zoom: 1 })
InitialCamera == [x |-> 0, y |-> 0, zoom |-> 1]

\* A JavaScript value as handleLoadProject looks at it: its kind, its items
\* when it is an array, and the camera it is when it is an object
JsUndefined == [kind |-> "undefined", items |-> <<>>, object |-> InitialCamera]
JsNull == [kind |-> "null", items |-> <<>>, object |-> InitialCamera]
JsString == [kind |-> "string", items |-> <<>>, object |-> InitialCamera]
JsObject(v) == [kind |-> "object", items |-> <<>>, object |-> v]
JsArray(items) == [kind |-> "array", items |-> items, object |-> InitialCamera]

\* The content of a file: whether JSON.parse returns, whether what it
\* returns is null, and the nodes, wires and camera properties of it
NoDocument ==
  [parses |-> FALSE, isNull |-> FALSE, nodes |-> JsUndefined,
   wires |-> JsUndefined, camera |-> JsUndefined]

\* What a handler was asked for: the ids deleteSelected collected; the node
\* and the delta of handleInputCountChange and the inputCount the context
\* menu showed; how many wires were attached to the nodes the request names
\* when it was made; the document handleLoadProject read.  Empty for the
\* other handlers.
NoRequest ==
  [nodeIds |-> {}, wireIds |-> {}, nodeId |-> 0, delta |-> 0, inputCount |-> 0,
   attached |-> 0, document |-> NoDocument]

\* The number of wires of ws with an end at a node whose id is in ids
AttachedTo(ws, ids) ==
  Cardinality({j \in 1..Len(ws) :
                 ws[j].sourceNodeId \in ids \/ ws[j].targetNodeId \in ids})

-----------------------------------------------------------------------------
(* quineMcCluskey.ts: solveQuineMcCluskey.  A term is a sequence of the      *)
(* characters "0", "1" and "-".                                              *)

\* null (and the empty string, which is falsy as well)
NULL == <<>>

\* The terms of length n
RECURSIVE AllTerms(_)
AllTerms(n) ==
  IF n = 0 THEN {<<>>}
  ELSE {Append(t, c) : t \in AllTerms(n - 1), c \in {"0", "1", "-"}}

\* m.toString(2)
RECURSIVE ToString2(_)
ToString2(m) ==
  IF m < 2 THEN <<IF m = 1 THEN "1" ELSE "0">>
  ELSE Append(ToString2(m \div 2), IF m % 2 = 1 THEN "1" ELSE "0")

\* s.padStart(n, '0')
RECURSIVE PadStart(_, _)
PadStart(s, n) == IF Len(s) >= n THEN s ELSE PadStart(<<"0">> \o s, n)

\* The for loop of combineTerms: the index of the only difference, -1 when
\* the terms are identical, -2 when a second difference is met
RECURSIVE DiffScan(_, _, _, _)
DiffScan(t1, t2, i, diffIndex) ==
  IF i > Len(t1) THEN diffIndex
  ELSE IF t1[i] # t2[i]
       THEN IF diffIndex # -1 THEN -2 ELSE DiffScan(t1, t2, i + 1, i)
       ELSE DiffScan(t1, t2, i + 1, diffIndex)

\* combineTerms without the return on a second difference: the first
\* difference becomes the don't-care
combineTermsFirstDifference(t1, t2) ==
  LET D == {i \in 1..Len(t1) : t1[i] # t2[i]}
  IN IF D = {} THEN NULL ELSE [t1 EXCEPT ![SetMin(D)] = "-"]

combineTerms(t1, t2) ==
  LET d == DiffScan(t1, t2, 1, -1)
  IN IF d < 0 THEN NULL ELSE [t1 EXCEPT ![d] = "-"]

\* Set.prototype.add / Map.prototype.set on a collection that iterates in
\* insertion order
SetAdd(s, x) == IF \E k \in 1..Len(s) : s[k] = x THEN s ELSE Append(s, x)

\* The inner for loop (j from i + 1) of one generation.  Len(next) and
\* Cardinality(used) have TLC evaluate the two collections at every step
\* instead of nesting the pending additions.
RECURSIVE CombineInner(_, _, _, _, _)
CombineInner(cur, i, j, next, used) ==
  IF Len(next) >= 0 /\ Cardinality(used) >= 0 /\ j > Len(cur) THEN [nextTerms |-> next, usedTerms |-> used]
  ELSE LET combined == combineTerms(cur[i], cur[j])
       IN IF combined # NULL
          THEN CombineInner(cur, i, j + 1, SetAdd(next, combined),
                            used \cup {cur[i], cur[j]})
          ELSE CombineInner(cur, i, j + 1, next, used)

\* The outer for loop (i) of one generation; the collections are evaluated
\* at every step here and in the loops below, as in the inner loop
RECURSIVE CombineLoop(_, _, _, _)
CombineLoop(cur, i, next, used) ==
  IF Len(next) >= 0 /\ Cardinality(used) >= 0 /\ i > Len(cur) THEN [nextTerms |-> next, usedTerms |-> used]
  ELSE LET r == CombineInner(cur, i, i + 1, next, used)
       IN CombineLoop(cur, i + 1, r.nextTerms, r.usedTerms)

\* The forEach without the test on usedTerms: every term of the generation
\* is added
RECURSIVE AddUnusedAll(_, _, _, _)
AddUnusedAll(cur, k, used, pis) ==
  IF Len(pis) >= 0 /\ k > Len(cur) THEN pis
  ELSE AddUnusedAll(cur, k + 1, used, SetAdd(pis, cur[k]))

\* currentTerms.forEach(t => { if (!usedTerms.has(t)) primeImplicants.add(t) })
RECURSIVE AddUnused(_, _, _, _)
AddUnused(cur, k, used, pis) ==
  IF Len(pis) >= 0 /\ k > Len(cur) THEN pis
  ELSE AddUnused(cur, k + 1, used,
                 IF cur[k] \notin used THEN SetAdd(pis, cur[k]) ELSE pis)

\* while (currentTerms.length > 0)
RECURSIVE CombineGenerations(_, _)
CombineGenerations(cur, pis) ==
  IF Len(cur) = 0 THEN pis
  ELSE LET r == CombineLoop(cur, 1, <<>>, {})
           p == AddUnused(cur, 1, r.usedTerms, pis)
       IN IF Len(r.nextTerms) = 0 THEN p ELSE CombineGenerations(r.nextTerms, p)

\* minterms.forEach(m => groups.set(bin, false)); Array.from(groups.keys())
RECURSIVE InitGroups(_, _, _, _)
InitGroups(n, minterms, k, acc) ==
  IF Len(acc) >= 0 /\ k > Len(minterms) THEN acc
  ELSE InitGroups(n, minterms, k + 1,
                  SetAdd(acc, PadStart(ToString2(minterms[k]), n)))

\* UTF-16 code units of the three characters
CharCode(c) == IF c = "-" THEN 45 ELSE IF c = "0" THEN 48 ELSE 49

\* The default comparison of Array.prototype.sort: by code units
RECURSIVE StrLess(_, _, _)
StrLess(a, b, i) ==
  IF i > Len(a) THEN i <= Len(b)
  ELSE IF i > Len(b) THEN FALSE
  ELSE IF CharCode(a[i]) # CharCode(b[i]) THEN CharCode(a[i]) < CharCode(b[i])
  ELSE StrLess(a, b, i + 1)

RECURSIVE SortInsert(_, _)
SortInsert(sorted, x) ==
  IF sorted = <<>> THEN <<x>>
  ELSE IF StrLess(x, Head(sorted), 1) THEN <<x>> \o sorted
  ELSE <<Head(sorted)>> \o SortInsert(Tail(sorted), x)

\* Array.from(primeImplicants).sort()
RECURSIVE SortTerms(_)
SortTerms(s) == IF s = <<>> THEN <<>> ELSE SortInsert(SortTerms(Tail(s)), Head(s))

\* The two returns ahead of the loop with the test for the full table left
\* out
FastPathEmptyOnly(n, minterms) ==
  IF Len(minterms) = 0 THEN "empty" ELSE "none"

\* The two returns ahead of the loop: which of them is taken, "none" when
\* the call goes on to the groups and the while loop
FastPath(n, minterms) ==
  IF Len(minterms) = 0 THEN "empty"
  ELSE IF Len(minterms) = Pow2(n) THEN "full"
  ELSE "none"

\* The prime implicants in the insertion order of the Set
PrimeImplicants(n, minterms) ==
  CombineGenerations(InitGroups(n, minterms, 1, <<>>), <<>>)

solveQuineMcCluskey(n, minterms) ==
  IF FastPath(n, minterms) = "empty" THEN <<>>
  ELSE IF FastPath(n, minterms) = "full" THEN << Repeat("-", n) >>
  ELSE SortTerms(PrimeImplicants(n, minterms))

\* The solveQuineMcCluskey of circuitEngine.ts, which differs in its last
\* line: return Array.from(primeImplicants)
solveQuineMcCluskeyUnsorted(n, minterms) ==
  IF FastPath(n, minterms) = "empty" THEN <<>>
  ELSE IF FastPath(n, minterms) = "full" THEN << Repeat("-", n) >>
  ELSE PrimeImplicants(n, minterms)

\* truthTable.map((val, idx) => val ? idx : -1).filter(idx => idx !== -1)
RECURSIVE MintermsOf(_, _)
MintermsOf(tt, k) ==
  IF k > Len(tt) THEN <<>>
  ELSE (IF tt[k] THEN <<k - 1>> ELSE <<>>) \o MintermsOf(tt, k + 1)

-----------------------------------------------------------------------------
(* quineMcCluskey.ts: termsToEquation.  The result is a string; a variable  *)
(* name is a string.                                                        *)

\* The for loop over the characters of term, from position i with part
RECURSIVE EquationPart(_, _, _, _)
EquationPart(term, variableNames, i, part) ==
  IF i > Len(term) THEN part
  ELSE IF term[i] = "1"
       THEN EquationPart(term, variableNames, i + 1, part \o variableNames[i])
       ELSE IF term[i] = "0"
            THEN EquationPart(term, variableNames, i + 1,
                              part \o variableNames[i] \o "'")
            ELSE EquationPart(term, variableNames, i + 1, part)

\* parts.join(" + "), from position k
RECURSIVE JoinPlus(_, _)
JoinPlus(parts, k) ==
  IF k > Len(parts) THEN ""
  ELSE IF k = Len(parts) THEN parts[k]
  ELSE parts[k] \o " + " \o JoinPlus(parts, k + 1)

\* termsToEquation without the test for a term of don't-cares
termsToEquationNoTrue(ts, variableNames) ==
  IF Len(ts) = 0 THEN "0 (False)"
  ELSE LET parts == [k \in 1..Len(ts) |->
                       LET part == EquationPart(ts[k], variableNames, 1, "")
                       IN IF part = "" THEN "1" ELSE part]
       IN JoinPlus(parts, 1)

termsToEquation(ts, variableNames) ==
  IF Len(ts) = 0 THEN "0 (False)"
  ELSE IF \E k \in 1..Len(ts) : \A i \in 1..Len(ts[k]) : ts[k][i] = "-"
       THEN "1 (True)"
       ELSE LET parts == [k \in 1..Len(ts) |->
                            LET part == EquationPart(ts[k], variableNames, 1, "")
                            IN IF part = "" THEN "1" ELSE part]
            IN JoinPlus(parts, 1)

-----------------------------------------------------------------------------
(* quineMcCluskey.ts: generateCircuitFromTerms.  nid[k] and wid[k] are the   *)
(* results of the generateId calls that name the k-th node and the k-th      *)
(* wire the generator creates.                                               *)

MkNode(id, type, inputCount, height) ==
  [id |-> id, type |-> type, state |-> FALSE,
   inputs |-> Repeat(FALSE, inputCount), height |-> height]

MkWire(id, src, srcPin, tgt, tgtPin) ==
  [id |-> id, sourceNodeId |-> src, sourcePinIndex |-> srcPin,
   targetNodeId |-> tgt, targetPinIndex |-> tgtPin, state |-> FALSE]

\* ['A', 'B', 'C', 'D'].slice(0, numVars).length
InputLabelCount(n) == IF n < 4 THEN n ELSE 4

\* A NOT gate for every input, needed or not
NotIndexesAll(n, ts) == 1..InputLabelCount(n)

\* needsNot[i] after terms.forEach, for the inputs that exist
NotIndexes(n, ts) ==
  {i \in 1..InputLabelCount(n) :
     \E k \in 1..Len(ts) : i <= Len(ts[k]) /\ ts[k][i] = "0"}

\* The position of variable i among the NOT gates created
NotRank(n, ts, i) == Cardinality({j \in NotIndexes(n, ts) : j <= i})

\* notGates.get(i).id
NotGateId(n, ts, nid, i) == nid[InputLabelCount(n) + NotRank(n, ts, i)]

\* 1. Create Input Switches
InputSwitches(n, nid) ==
  [i \in 1..InputLabelCount(n) |-> MkNode(nid[i], "INPUT_SWITCH", 0, 50)]

\* 2. Create NOT Gates: the nodes and the wires pushed by inputs.forEach
RECURSIVE NotGates(_, _, _, _, _)
NotGates(n, ts, nid, wid, i) ==
  IF i > InputLabelCount(n) THEN [nodes |-> <<>>, wires |-> <<>>]
  ELSE LET rest == NotGates(n, ts, nid, wid, i + 1)
       IN IF i \in NotIndexes(n, ts)
          THEN [nodes |-> <<MkNode(NotGateId(n, ts, nid, i), "NOT", 1,
                                   ConfigHeight("NOT"))>> \o rest.nodes,
                wires |-> <<MkWire(wid[NotRank(n, ts, i)], nid[i], 0,
                                   NotGateId(n, ts, nid, i), 0)>> \o rest.wires]
          ELSE rest

\* The connections array filled from the last literal to the first
TermConnectionsReversed(n, ts, nid, term) ==
  LET lit(i) == IF term[i] = "1" THEN nid[i]
                ELSE IF term[i] = "0" /\ i \in NotIndexes(n, ts)
                     THEN NotGateId(n, ts, nid, i)
                     ELSE 0
  IN SelectSeq([i \in 1..Len(term) |-> lit(Len(term) + 1 - i)],
               LAMBDA x : x # 0)

\* The connections array of one term: the source node id of each literal
TermConnections(n, ts, nid, term) ==
  LET lit(i) == IF term[i] = "1" THEN nid[i]
                ELSE IF term[i] = "0" /\ i \in NotIndexes(n, ts)
                     THEN NotGateId(n, ts, nid, i)
                     ELSE 0
  IN SelectSeq([i \in 1..Len(term) |-> lit(i)], LAMBDA x : x # 0)

\* 3. Create Product Terms: the body of terms.forEach for term idx; acc holds
\* the nodes and wires pushed so far, termOutputs, and the generateId calls
\* made
ProductStep(n, ts, nid, wid, idx, acc) ==
  IF ts[idx] = Repeat("-", n) /\ Len(ts) > 1 THEN acc
  ELSE LET connections == TermConnections(n, ts, nid, ts[idx])
           inputCount == Len(connections)
           andId == nid[acc.nc + 1]
       IN IF inputCount = 0 THEN acc
          ELSE IF inputCount = 1
          THEN [acc EXCEPT !.termOutputs =
                  Append(@, [sourceNodeId |-> connections[1],
                             sourcePinIndex |-> 0])]
          ELSE [nodes |-> Append(acc.nodes,
                            MkNode(andId, "AND", inputCount,
                                   (inputCount + 1) * PIN_SPACING)),
                wires |-> acc.wires \o
                            [p \in 1..inputCount |->
                               MkWire(wid[acc.wc + p], connections[p], 0,
                                      andId, p - 1)],
                termOutputs |-> Append(acc.termOutputs,
                                  [sourceNodeId |-> andId, sourcePinIndex |-> 0]),
                nc |-> acc.nc + 1,
                wc |-> acc.wc + inputCount]

\* terms.forEach from term idx on; acc is evaluated at every step
RECURSIVE ProductTerms(_, _, _, _, _, _)
ProductTerms(n, ts, nid, wid, idx, acc) ==
  IF Len(acc.nodes) + Len(acc.wires) + Len(acc.termOutputs) + acc.nc + acc.wc >= 0
     /\ idx > Len(ts) THEN acc
  ELSE ProductTerms(n, ts, nid, wid, idx + 1,
                    ProductStep(n, ts, nid, wid, idx, acc))

\* 4. Create Sum Term (OR Gate) and 5. Output Lamp
SumAndLamp(nid, wid, acc) ==
  LET inputCount == Len(acc.termOutputs)
      orId == nid[acc.nc + 1]
      withOr == inputCount >= 2
      nodes1 == IF withOr
                THEN Append(acc.nodes, MkNode(orId, "OR", inputCount,
                                              (inputCount + 1) * PIN_SPACING))
                ELSE acc.nodes
      wires1 == IF withOr
                THEN acc.wires \o
                       [p \in 1..inputCount |->
                          MkWire(wid[acc.wc + p], acc.termOutputs[p].sourceNodeId,
                                 acc.termOutputs[p].sourcePinIndex, orId, p - 1)]
                ELSE acc.wires
      nc1 == IF withOr THEN acc.nc + 1 ELSE acc.nc
      wc1 == IF withOr THEN acc.wc + inputCount ELSE acc.wc
      finalOutputNodeId == IF inputCount = 0 THEN 0
                           ELSE IF inputCount = 1
                                THEN acc.termOutputs[1].sourceNodeId
                                ELSE orId
      finalOutputPinIdx == IF inputCount = 1
                           THEN acc.termOutputs[1].sourcePinIndex ELSE 0
      lampId == nid[nc1 + 1]
  IN [nodes |-> Append(nodes1, MkNode(lampId, "OUTPUT_LAMP", 1, 50)),
      wires |-> IF finalOutputNodeId # 0
                THEN Append(wires1, MkWire(wid[wc1 + 1], finalOutputNodeId,
                                           finalOutputPinIdx, lampId, 0))
                ELSE wires1,
      nc |-> nc1 + 1,
      wc |-> IF finalOutputNodeId # 0 THEN wc1 + 1 ELSE wc1]

generateCircuitFromTerms(n, ts, nid, wid) ==
  LET nots == NotGates(n, ts, nid, wid, 1)
      acc0 == [nodes |-> InputSwitches(n, nid) \o nots.nodes,
               wires |-> nots.wires,
               termOutputs |-> <<>>,
               nc |-> InputLabelCount(n) + Len(nots.nodes),
               wc |-> Len(nots.wires)]
  IN SumAndLamp(nid, wid, ProductTerms(n, ts, nid, wid, 1, acc0))

generateCircuitFromTruthTable(n, tt, nid, wid) ==
  LET solved == solveQuineMcCluskey(n, MintermsOf(tt, 1))
  IN CASE Len(solved) >= 0 -> generateCircuitFromTerms(n, solved, nid, wid)

-----------------------------------------------------------------------------
(* generateId: Math.random().toString(36).substr(2, 9).  The result is      *)
(* either a string no id in use equals, and every such string behaves       *)
(* alike, or it repeats an id in use.  Node ids and wire ids are never      *)
(* compared with one another, so each kind has its own numbering.           *)

\* The k-th smallest positive number that is not in used
FreshId(used, k) ==
  CHOOSE x \in 1..(Cardinality(used) + k) :
    x \notin used /\ Cardinality({y \in 1..x : y \notin used}) = k

\* How many generateId calls one handler run can make for one kind of id
SupplyLen == 200

\* The results of successive generateId calls none of which repeats an id
FreshSupply(used) == [k \in 1..SupplyLen |-> FreshId(used, k)]

NodeIdsInUse ==
  {nodes[k].id : k \in 1..Len(nodes)}
  \cup {wires[k].sourceNodeId : k \in 1..Len(wires)}
  \cup {wires[k].targetNodeId : k \in 1..Len(wires)}
  \cup Range(selectedNodeIds) \cup ({contextMenu} \ {0})

WireIdsInUse == {wires[k].id : k \in 1..Len(wires)} \cup Range(selectedWireIds)

-----------------------------------------------------------------------------
(* App: the steps shared by the specifications *)

\* const res = propagateCircuit(ns, ws); setNodes(res.nodes); setWires(res.wires).
\* An exception thrown by the call leaves the handler before the setters.
PropagateAndSet(ns, ws) ==
  /\ call' = CallRecord(ns, ws)
  /\ nodes' = IF call'.threw THEN nodes ELSE call'.nodes
  /\ wires' = IF call'.threw THEN wires ELSE call'.wires

\* A stabilize call on the live model
Stabilize ==
  /\ PropagateAndSet(nodes, wires)
  /\ lastOp' = "stabilize"
  /\ request' = NoRequest
  /\ UNCHANGED <<selectedNodeIds, selectedWireIds, contextMenu, numVars,
                 truthTable, terms, collisions, camera, equation>>

\* handleKarnaughGenerate(n, tt) with the generateId results nid and wid
KarnaughGenerate(n, tt, nid, wid) ==
  LET frag == generateCircuitFromTruthTable(n, tt, nid, wid)
  IN /\ nodes' = nodes \o frag.nodes
     /\ wires' = wires \o frag.wires
     /\ lastOp' = "generate"
     /\ call' = NoCall
     /\ request' = NoRequest
     /\ UNCHANGED <<selectedNodeIds, selectedWireIds, contextMenu, camera,
                    equation>>

\* A click on node id, whose first node is an INPUT_SWITCH: handleMouseDown
\* on the body of the node (selection), then handleMouseUp within 3 pixels
\* (every node of that id is flipped and the model stabilized)
ClickNode(id, multi) ==
  LET hit == {k \in 1..Len(nodes) : nodes[k].id = id}
      node == nodes[SetMin(hit)]
      isSelected == id \in Range(selectedNodeIds)
      newNodes == [k \in 1..Len(nodes) |->
                     IF nodes[k].id = node.id
                     THEN [nodes[k] EXCEPT !.state = ~nodes[k].state]
                     ELSE nodes[k]]
  IN /\ hit # {}
     /\ node.type = "INPUT_SWITCH"
     /\ selectedNodeIds' =
          IF multi
          THEN IF isSelected
               THEN SelectSeq(selectedNodeIds, LAMBDA x : x # id)
               ELSE Append(selectedNodeIds, id)
          ELSE IF isSelected THEN selectedNodeIds ELSE <<id>>
     /\ selectedWireIds' =
          IF ~multi /\ ~isSelected THEN <<>> ELSE selectedWireIds
     /\ contextMenu' = 0
     /\ PropagateAndSet(newNodes, wires)
     /\ lastOp' = "toggle"
     /\ request' = NoRequest
     /\ UNCHANGED <<numVars, truthTable, terms, collisions, camera, equation>>

-----------------------------------------------------------------------------
(* Minimizer runs: every truth table of 1 to MaxVars variables is minimized *)

IdleApp ==
  /\ nodes = <<>>
  /\ wires = <<>>
  /\ selectedNodeIds = <<>>
  /\ selectedWireIds = <<>>
  /\ contextMenu = 0
  /\ terms = <<>>
  /\ lastOp = "init"
  /\ call = NoCall
  /\ camera = InitialCamera
  /\ equation = ""
  /\ request = NoRequest
  /\ RefsSynced

InitQM ==
  /\ IdleApp
  /\ collisions = 0
  /\ numVars \in 1..MaxVars
  /\ truthTable \in [1..Pow2(numVars) -> BOOLEAN]

Minimize ==
  /\ lastOp = "init"
  /\ terms' = solveQuineMcCluskey(numVars, MintermsOf(truthTable, 1))
  /\ lastOp' = "minimize"
  /\ UNCHANGED <<nodes, wires, selectedNodeIds, selectedWireIds, contextMenu,
                 numVars, truthTable, call, collisions, camera, equation,
                 request>>

\* The same call on the implementation of circuitEngine.ts
MinimizeUnsorted ==
  /\ lastOp = "init"
  /\ terms' = solveQuineMcCluskeyUnsorted(numVars, MintermsOf(truthTable, 1))
  /\ lastOp' = "minimizeUnsorted"
  /\ UNCHANGED <<nodes, wires, selectedNodeIds, selectedWireIds, contextMenu,
                 numVars, truthTable, call, collisions, camera, equation,
                 request>>

NextQM ==
  \/ Minimize /\ EffectsFlushed
  \/ MinimizeUnsorted /\ EffectsFlushed

SpecQM == InitQM /\ [][NextQM]_vars

-----------------------------------------------------------------------------
(* Synthesis runs: a truth table is generated into an empty model, the      *)
(* model is stabilized, and the input switches are toggled                  *)

InitSynth ==
  /\ IdleApp
  /\ collisions = 0
  /\ numVars \in 2..SynthVars
  /\ truthTable \in [1..Pow2(numVars) -> BOOLEAN]

SynthGenerate ==
  /\ lastOp = "init"
  /\ KarnaughGenerate(numVars, truthTable, FreshSupply(NodeIdsInUse),
                      FreshSupply(WireIdsInUse))
  /\ terms' = solveQuineMcCluskey(numVars, MintermsOf(truthTable, 1))
  /\ UNCHANGED <<numVars, truthTable, collisions>>

SynthStabilize ==
  /\ lastOp = "generate"
  /\ Stabilize

SynthToggle ==
  /\ lastOp \in {"stabilize", "toggle"}
  /\ \E k \in 1..Len(nodes) :
       nodes[k].type = "INPUT_SWITCH" /\ ClickNode(nodes[k].id, FALSE)

NextSynth ==
  \/ SynthGenerate /\ EffectsFlushed
  \/ SynthStabilize /\ EffectsFlushed
  \/ SynthToggle /\ EffectsFlushed

SpecSynth == InitSynth /\ [][NextSynth]_vars

-----------------------------------------------------------------------------
(* Propagation runs: propagateCircuit is called, and called again, on a     *)
(* model drawn from two families.  handleLoadProject accepts any document   *)
(* whose nodes and wires are arrays, so the stored states of a model, its   *)
(* connection endpoints and the fan-in of its pins are arbitrary.           *)

\* The kinds drawn for an arbitrary model
PropTypes == {"INPUT_SWITCH", "CLOCK", "NOT", "AND"}

\* A node of an arbitrary model without its id: the input count is the
\* configured one, the stored output and inputs are arbitrary
PropNodeShapes ==
  UNION {[type : {t}, state : BOOLEAN,
          inputs : [1..ConfigInputCount(t) -> BOOLEAN],
          height : {ConfigHeight(t)}] : t \in PropTypes}

\* A wire of an arbitrary model over N nodes without its id; node id N + 1
\* is the id of no node
PropWireShapes(N) ==
  [sourceNodeId : 1..(N + 1), sourcePinIndex : {0},
   targetNodeId : 1..(N + 1), targetPinIndex : 0..1, state : BOOLEAN]

WithNodeId(shape, id) ==
  [id |-> id, type |-> shape.type, state |-> shape.state,
   inputs |-> shape.inputs, height |-> shape.height]

WithWireId(shape, id) ==
  [id |-> id, sourceNodeId |-> shape.sourceNodeId,
   sourcePinIndex |-> shape.sourcePinIndex,
   targetNodeId |-> shape.targetNodeId,
   targetPinIndex |-> shape.targetPinIndex, state |-> shape.state]

InitPropArbitrary ==
  \E N \in 1..PropNodes : \E M \in 0..PropWires :
    \E ns \in [1..N -> PropNodeShapes] : \E ws \in [1..M -> PropWireShapes(N)] :
      /\ nodes = [k \in 1..N |-> WithNodeId(ns[k], k)]
      /\ wires = [k \in 1..M |-> WithWireId(ws[k], k)]

\* The value at the output of gate j of a chain of NOT gates behind a switch
\* of value b (j = 0: the switch itself)
ChainValue(b, j) == IF j % 2 = 0 THEN b ELSE ~b

\* A switch (id 1) followed by L NOT gates (ids 2..L + 1), each wired to the
\* one before it, settled for the switch value b, the switch then flipped:
\* the model handleMouseUp passes to propagateCircuit on a switch click
ChainNodes(L, b) ==
  [k \in 1..(L + 1) |->
     IF k = 1 THEN [id |-> 1, type |-> "INPUT_SWITCH", state |-> ~b,
                    inputs |-> <<>>, height |-> 50]
     ELSE [id |-> k, type |-> "NOT", state |-> ChainValue(b, k - 1),
           inputs |-> <<ChainValue(b, k - 2)>>, height |-> ConfigHeight("NOT")]]

ChainWires(L, b) ==
  [k \in 1..L |->
     [id |-> k, sourceNodeId |-> k, sourcePinIndex |-> 0,
      targetNodeId |-> k + 1, targetPinIndex |-> 0,
      state |-> ChainValue(b, k - 1)]]

\* A wire from the last gate of the chain to node id L + 2, the id of no
\* node, as settled as the rest
ChainTail(L, b) ==
  [id |-> L + 1, sourceNodeId |-> L + 1, sourcePinIndex |-> 0,
   targetNodeId |-> L + 2, targetPinIndex |-> 0, state |-> ChainValue(b, L)]

InitPropChain ==
  \E L \in 1..ChainLen : \E b \in BOOLEAN : \E tail \in BOOLEAN :
    /\ nodes = ChainNodes(L, b)
    /\ wires = IF tail THEN Append(ChainWires(L, b), ChainTail(L, b))
               ELSE ChainWires(L, b)

InitProp ==
  /\ selectedNodeIds = <<>>
  /\ selectedWireIds = <<>>
  /\ contextMenu = 0
  /\ numVars = 3
  /\ truthTable = Repeat(FALSE, 8)
  /\ terms = <<>>
  /\ lastOp = "init"
  /\ call = NoCall
  /\ collisions = 0
  /\ camera = InitialCamera
  /\ equation = ""
  /\ request = NoRequest
  /\ (InitPropArbitrary \/ InitPropChain)
  /\ RefsSynced

NextProp == Stabilize /\ EffectsFlushed

SpecProp == InitProp /\ [][NextProp]_vars

-----------------------------------------------------------------------------
(* The editor: App's handlers on a model that starts empty *)

\* The kinds the toolbar is used for
EditTypes == {"INPUT_SWITCH", "CLOCK", "NOT", "AND"}

\* The results of n successive generateId calls: none repeats an id, or,
\* when the run has a collision left, one of them repeats an id in use or
\* an earlier result.  cost is the number of repeats.
IdChoices(used, n, budget) ==
  LET fresh == [k \in 1..n |-> FreshId(used, k)]
  IN {[ids |-> fresh, cost |-> 0]}
     \cup (IF budget > 0
           THEN UNION {{[ids |-> [fresh EXCEPT ![j] = c], cost |-> 1] :
                          c \in used \cup {fresh[i] : i \in 1..(j - 1)}} :
                       j \in 1..n}
           ELSE {})

\* useState initial values
Init ==
  /\ IdleApp
  /\ collisions = 0
  /\ numVars = 3
  /\ truthTable = Repeat(FALSE, 8)

\* handleMouseDown in PLACING mode with the tool type
PlaceNode(type) ==
  /\ Len(nodes) < MaxNodes
  /\ \E g \in IdChoices(NodeIdsInUse, 1, MaxCollisions - collisions) :
       /\ nodes' = Append(nodes, MkNode(g.ids[1], type, ConfigInputCount(type),
                                         ConfigHeight(type)))
       /\ selectedNodeIds' = <<g.ids[1]>>
       /\ collisions' = collisions + g.cost
  /\ selectedWireIds' = <<>>
  /\ contextMenu' = 0
  /\ call' = NoCall
  /\ lastOp' = "place"
  /\ request' = NoRequest
  /\ UNCHANGED <<wires, numVars, truthTable, terms, camera, equation>>

\* handleMouseDown on the output pin of node src, then handleMouseUp on
\* input pin `pin` of node tgt
CompleteWiring(src, tgt, pin) ==
  /\ \E k \in 1..Len(nodes) :
       nodes[k].id = src /\ ConfigOutputCount(nodes[k].type) > 0
  /\ \E k \in 1..Len(nodes) : nodes[k].id = tgt /\ pin < Len(nodes[k].inputs)
  /\ \E g \in IdChoices(WireIdsInUse, 1, MaxCollisions - collisions) :
       LET newWire == MkWire(g.ids[1], src, 0, tgt, pin)
           exists == \E k \in 1..Len(wires) :
                       /\ wires[k].targetNodeId = newWire.targetNodeId
                       /\ wires[k].targetPinIndex = newWire.targetPinIndex
       IN /\ collisions' = collisions + g.cost
          /\ IF ~exists
             THEN /\ Len(wires) < MaxWires
                  /\ PropagateAndSet(nodes, Append(wires, newWire))
             ELSE /\ call' = NoCall
                  /\ UNCHANGED <<nodes, wires>>
  /\ selectedNodeIds' = <<>>
  /\ selectedWireIds' = <<>>
  /\ contextMenu' = 0
  /\ lastOp' = "connect"
  /\ request' = NoRequest
  /\ UNCHANGED <<numVars, truthTable, terms, camera, equation>>

\* The selections the pointer can build: handleMouseDown on a node or a
\* wire, with or without the shift key, adds to or replaces the selection;
\* handleContextMenu on a node outside the selection makes it the selection.
\* A selection names each id once, in the order of the clicks.
SelectionsOf(S) ==
  {<<>>} \cup UNION {{s \in [1..n -> S] : \A i, j \in 1..n : s[i] = s[j] => i = j} :
                     n \in 1..MaxSel}

\* deleteSelected without the filter on the ends of a wire
DeleteSelectedNoCascade(selNodes, selWires, menu) ==
  LET nodeIdsToDelete == Range(selNodes) \cup ({menu} \ {0})
      wireIdsToDelete == Range(selWires)
  IN /\ ~(nodeIdsToDelete = {} /\ wireIdsToDelete = {})
     /\ nodes' = SelectSeq(nodes, LAMBDA n : n.id \notin nodeIdsToDelete)
     /\ wires' = SelectSeq(wires, LAMBDA w : w.id \notin wireIdsToDelete)
     /\ selectedNodeIds' = <<>>
     /\ selectedWireIds' = <<>>
     /\ contextMenu' = 0
     /\ call' = NoCall
     /\ lastOp' = "delete"
     /\ request' = [NoRequest EXCEPT
                       !.nodeIds = nodeIdsToDelete,
                       !.wireIds = wireIdsToDelete,
                       !.attached = AttachedTo(wires, nodeIdsToDelete)]
     /\ UNCHANGED <<numVars, truthTable, terms, collisions, camera, equation>>

\* deleteSelected, with selNodes and selWires selected, from the context
\* menu open on node menu or, from handleKeyDown, with the contextMenu of
\* the first render (menu = 0)
DeleteSelected(selNodes, selWires, menu) ==
  LET nodeIdsToDelete == Range(selNodes) \cup ({menu} \ {0})
      wireIdsToDelete == Range(selWires)
  IN /\ ~(nodeIdsToDelete = {} /\ wireIdsToDelete = {})
     /\ nodes' = SelectSeq(nodes, LAMBDA n : n.id \notin nodeIdsToDelete)
     /\ wires' = SelectSeq(wires, LAMBDA w :
                    /\ w.id \notin wireIdsToDelete
                    /\ w.sourceNodeId \notin nodeIdsToDelete
                    /\ w.targetNodeId \notin nodeIdsToDelete)
     /\ selectedNodeIds' = <<>>
     /\ selectedWireIds' = <<>>
     /\ contextMenu' = 0
     /\ call' = NoCall
     /\ lastOp' = "delete"
     /\ request' = [NoRequest EXCEPT
                       !.nodeIds = nodeIdsToDelete,
                       !.wireIds = wireIdsToDelete,
                       !.attached = AttachedTo(wires, nodeIdsToDelete)]
     /\ UNCHANGED <<numVars, truthTable, terms, collisions, camera, equation>>

\* duplicateSelected, with selNodes selected, from the context menu open on
\* node menu
DuplicateSelected(selNodes, menu) ==
  LET idsToDuplicate ==
        IF menu # 0 /\ menu \notin Range(selNodes) THEN <<menu>> ELSE selNodes
      found == SelectSeq(idsToDuplicate,
                         LAMBDA id : \E k \in 1..Len(nodes) : nodes[k].id = id)
      original(id) == nodes[SetMin({k \in 1..Len(nodes) : nodes[k].id = id})]
      has(id) == \E i \in 1..Len(found) : found[i] = id
      internal == KeptPositions(wires, LAMBDA w :
                                  has(w.sourceNodeId) /\ has(w.targetNodeId))
  IN /\ Len(idsToDuplicate) # 0
     /\ Len(nodes) + Len(found) <= MaxNodes
     /\ Len(wires) + Len(internal) <= MaxWires
     /\ \E g \in IdChoices(NodeIdsInUse, Len(found), MaxCollisions - collisions) :
          \E h \in IdChoices(WireIdsInUse, Len(internal),
                             MaxCollisions - collisions - g.cost) :
            LET get(id) == g.ids[SetMax({i \in 1..Len(found) : found[i] = id})]
                newNodes == [i \in 1..Len(found) |->
                               [original(found[i]) EXCEPT !.id = g.ids[i]]]
                newWires == [j \in 1..Len(internal) |->
                               [wires[internal[j]] EXCEPT
                                  !.id = h.ids[j],
                                  !.sourceNodeId = get(@),
                                  !.targetNodeId = get(@)]]
            IN /\ nodes' = nodes \o newNodes
               /\ wires' = wires \o newWires
               /\ selectedNodeIds' = g.ids
               /\ collisions' = collisions + g.cost + h.cost
     /\ selectedWireIds' = <<>>
     /\ contextMenu' = 0
     /\ call' = NoCall
     /\ lastOp' = "duplicate"
     /\ request' = NoRequest
     /\ UNCHANGED <<numVars, truthTable, terms, camera, equation>>

\* currentCount + delta without the clamp
NewCountUnclamped(currentCount, delta) == currentCount + delta

\* Math.min(8, Math.max(2, currentCount + delta))
NewCount(currentCount, delta) ==
  LET raised == IF currentCount + delta > MinInputs
                THEN currentCount + delta ELSE MinInputs
  IN IF raised < MaxInputs THEN raised ELSE MaxInputs

\* The updater handleInputCountChange passes to setNodes, for one node
ResizedNode(node, delta) ==
  LET currentCount == Len(node.inputs)
      newCount == NewCount(currentCount, delta)
  IN IF newCount = currentCount THEN node
     ELSE [node EXCEPT
             !.inputs = IF newCount > currentCount
                        THEN node.inputs \o Repeat(FALSE, newCount - currentCount)
                        ELSE SubSeq(node.inputs, 1, newCount),
             !.height = (newCount + 1) * PIN_SPACING]

\* handleInputCountChange(delta) with contextMenu.nodeId = nodeId: every node
\* of that id is resized, and a node that shrinks has the wires to its
\* removed pins filtered out
handleInputCountChange(nodeId, delta) ==
  LET hit == {k \in 1..Len(nodes) : nodes[k].id = nodeId}
      shrunk == {NewCount(Len(nodes[k].inputs), delta) :
                   k \in {j \in hit : NewCount(Len(nodes[j].inputs), delta)
                                        < Len(nodes[j].inputs)}}
  IN /\ nodeId # 0
     /\ nodes' = [k \in 1..Len(nodes) |->
                    IF nodes[k].id # nodeId THEN nodes[k]
                    ELSE ResizedNode(nodes[k], delta)]
     /\ wires' = SelectSeq(wires, LAMBDA w :
                    ~(/\ w.targetNodeId = nodeId
                      /\ \E newCount \in shrunk : w.targetPinIndex >= newCount))
     /\ call' = NoCall
     /\ lastOp' = "arity"
     /\ request' = [NoRequest EXCEPT
                       !.nodeId = nodeId, !.delta = delta,
                       !.inputCount = IF hit = {} THEN 0
                                      ELSE Len(nodes[SetMin(hit)].inputs),
                       !.attached = AttachedTo(wires, {nodeId})]

\* handleInputCountChange(delta), from the minus (-1) or plus (+1) button of
\* the context menu opened on node menu, which was not selected; the menu
\* shows the buttons for the first node of that id
InputCountChange(menu, delta) ==
  LET hit == {k \in 1..Len(nodes) : nodes[k].id = menu}
      shown == nodes[SetMin(hit)]
  IN /\ menu # 0
     /\ hit # {}
     /\ shown.type \in VariableInputTypes
     /\ delta = -1 => ~(Len(shown.inputs) <= MinInputs)
     /\ delta = 1 => ~(Len(shown.inputs) >= MenuMaxInputs)
     /\ \A k \in hit : NewCount(Len(nodes[k].inputs), delta) <= MaxArity
     /\ handleInputCountChange(menu, delta)
     /\ selectedNodeIds' = <<menu>>
     /\ selectedWireIds' = <<>>
     /\ contextMenu' = menu
     /\ UNCHANGED <<numVars, truthTable, terms, collisions, camera, equation>>

\* KarnaughModal's Generate button, the modal set to n variables and truth
\* table tt
Generate(n, tt) ==
  LET dry == generateCircuitFromTruthTable(n, tt, FreshSupply(NodeIdsInUse),
                                           FreshSupply(WireIdsInUse))
  IN /\ Len(nodes) + InputLabelCount(n) + 1 <= MaxMerged
     /\ Len(nodes) + Len(dry.nodes) <= MaxMerged
     /\ Len(wires) + Len(dry.wires) <= MaxWires
     /\ \E g \in IdChoices(NodeIdsInUse, Len(dry.nodes),
                           MaxCollisions - collisions) :
          \E h \in IdChoices(WireIdsInUse, Len(dry.wires),
                             MaxCollisions - collisions - g.cost) :
            /\ KarnaughGenerate(n, tt, g.ids, h.ids)
            /\ collisions' = collisions + g.cost + h.cost
     /\ UNCHANGED <<numVars, truthTable, terms>>

\* node.state = !node.state on the objects nodesRef.current holds
ClocksFlipped(ns) ==
  [k \in 1..Len(ns) |->
     IF ns[k].type = "CLOCK" THEN [ns[k] EXCEPT !.state = ~ns[k].state]
     ELSE ns[k]]

\* The setInterval callback: every CLOCK node of nodesRef.current is flipped
\* in place, and the model is stabilized when there was one
ClockTick ==
  LET currentNodes == ClocksFlipped(refs.nodes)
  IN /\ \E k \in 1..Len(refs.nodes) : refs.nodes[k].type = "CLOCK"
     /\ PropagateAndSet(currentNodes, refs.wires)
     /\ lastOp' = "tick"
     /\ request' = NoRequest
     /\ UNCHANGED <<selectedNodeIds, selectedWireIds, contextMenu, numVars,
                    truthTable, terms, collisions, camera, equation>>

\* The ids a pointer event can name
PointedNodeIds == {nodes[k].id : k \in 1..Len(nodes)}

PointedWireIds == {wires[k].id : k \in 1..Len(wires)}

Next ==
  \/ \E type \in EditTypes : PlaceNode(type) /\ EffectsFlushed
  \/ \E src, tgt \in PointedNodeIds : \E pin \in 0..(MaxArity - 1) :
       CompleteWiring(src, tgt, pin) /\ EffectsFlushed
  \/ \E id \in PointedNodeIds : ClickNode(id, FALSE) /\ EffectsFlushed
  \/ \E selNodes \in SelectionsOf(PointedNodeIds) :
       \E selWires \in SelectionsOf(PointedWireIds) :
         \E menu \in {0} \cup Range(selNodes) :
           DeleteSelected(selNodes, selWires, menu) /\ EffectsFlushed
  \/ \E selNodes \in SelectionsOf(PointedNodeIds) :
       \E menu \in Range(selNodes) :
         DuplicateSelected(selNodes, menu) /\ EffectsFlushed
  \/ \E menu \in PointedNodeIds : \E delta \in {-1, 1} :
       InputCountChange(menu, delta) /\ EffectsFlushed
  \/ \E n \in 2..EditVars : \E tt \in [1..Pow2(n) -> BOOLEAN] :
       Generate(n, tt) /\ EffectsFlushed
  \/ ClockTick /\ EffectsFlushed

Spec == Init /\ [][Next]_vars

-----------------------------------------------------------------------------
(* Clock runs: the 500 ms interval interleaved with the user's events.  The  *)
(* handlers read nodes and wires of the render they were created in; the     *)
(* interval callback reads nodesRef.current and wiresRef.current, which the  *)
(* effects of a render set some time after the render is committed.  Between *)
(* a commit and its effects the refs hold the model of the render before.    *)
(* The model starts with a CLOCK (id 1), an INPUT_SWITCH (id 2) and an AND   *)
(* gate of two inputs (id 3), stabilized, the clock wired to the gate or     *)
(* not.                                                                      *)

RaceNodes(clock, switch) ==
  << [MkNode(1, "CLOCK", 0, ConfigHeight("CLOCK")) EXCEPT !.state = clock],
     [MkNode(2, "INPUT_SWITCH", 0, ConfigHeight("INPUT_SWITCH"))
        EXCEPT !.state = switch],
     MkNode(3, "AND", 2, ConfigHeight("AND")) >>

InitRace ==
  /\ \E clock, switch \in BOOLEAN :
       \E ws \in {<<>>, <<MkWire(1, 1, 0, 3, 0)>>} :
         LET res == propagateCircuit(RaceNodes(clock, switch), ws)
         IN /\ nodes = res.nodes
            /\ wires = res.wires
  /\ selectedNodeIds = <<>>
  /\ selectedWireIds = <<>>
  /\ contextMenu = 0
  /\ numVars = 3
  /\ truthTable = Repeat(FALSE, 8)
  /\ terms = <<>>
  /\ lastOp = "init"
  /\ call = NoCall
  /\ collisions = 0
  /\ camera = InitialCamera
  /\ equation = ""
  /\ request = NoRequest
  /\ RefsSynced

\* A handler's render: React runs the effects that are still pending from
\* the render before, then commits; the effects of the new render are pending
EffectsPending == refs' = [nodes |-> nodes, wires |-> wires]

\* The pending effects run: nodesRef.current = nodes and
\* wiresRef.current = wires
SyncRefs ==
  /\ refs # [nodes |-> nodes, wires |-> wires]
  /\ refs' = [nodes |-> nodes, wires |-> wires]
  /\ lastOp' = "effects"
  /\ call' = NoCall
  /\ request' = NoRequest
  /\ UNCHANGED <<nodes, wires, selectedNodeIds, selectedWireIds, contextMenu,
                 numVars, truthTable, terms, collisions, camera, equation>>

\* The interval callback fires every 500 ms, whether the effects of the last
\* render are pending or not; the effects of the render it causes have run
\* long before the next one
NextRace ==
  \/ \E id \in PointedNodeIds : ClickNode(id, FALSE) /\ EffectsPending
  \/ \E src, tgt \in PointedNodeIds : \E pin \in 0..(MaxArity - 1) :
       CompleteWiring(src, tgt, pin) /\ EffectsPending
  \/ \E selNodes \in SelectionsOf(PointedNodeIds) :
       \E selWires \in SelectionsOf(PointedWireIds) :
         DeleteSelected(selNodes, selWires, 0) /\ EffectsPending
  \/ \E menu \in PointedNodeIds : \E delta \in {-1, 1} :
       InputCountChange(menu, delta) /\ EffectsPending
  \/ SyncRefs
  \/ ClockTick /\ EffectsFlushed

SpecRace == InitRace /\ [][NextRace]_vars

-----------------------------------------------------------------------------
(* Grow runs: a circuit is generated from a truth table of MaxVars variables *)
(* and merged into the empty model, and the context menu is then opened on   *)
(* one of its gates and one of its two buttons is pressed.  The tables are   *)
(* true on nine rows that give nine terms, and on at most GrowRows further   *)
(* rows.                                                                     *)

\* The rows 0000, 0010, 0011, 0100, 0101, 0111, 1001, 1010, 1100: eight
\* terms of two rows each and the term 1001
GrowBase == {0, 2, 3, 4, 5, 7, 9, 10, 12}

GrowTables ==
  {tt \in [1..Pow2(MaxVars) -> BOOLEAN] :
     /\ \A a \in GrowBase : tt[a + 1]
     /\ Cardinality({a \in 1..Pow2(MaxVars) : tt[a]})
          <= Cardinality(GrowBase) + GrowRows}

InitGrow ==
  /\ IdleApp
  /\ collisions = 0
  /\ numVars = MaxVars
  /\ truthTable \in GrowTables

GrowGenerate ==
  /\ lastOp = "init"
  /\ KarnaughGenerate(numVars, truthTable, FreshSupply(NodeIdsInUse),
                      FreshSupply(WireIdsInUse))
  /\ terms' = solveQuineMcCluskey(numVars, MintermsOf(truthTable, 1))
  /\ UNCHANGED <<numVars, truthTable, collisions>>

\* handleInputCountChange(delta) from a button of the context menu opened on
\* node menu: the menu shows the buttons for variable-arity gates, minus
\* disabled at 2 inputs or fewer and plus disabled at 32 or more
GrowRequest(menu, delta) ==
  LET hit == {k \in 1..Len(nodes) : nodes[k].id = menu}
      shown == nodes[SetMin(hit)]
  IN /\ lastOp = "generate"
     /\ hit # {}
     /\ shown.type \in VariableInputTypes
     /\ delta = -1 => ~(Len(shown.inputs) <= MinInputs)
     /\ delta = 1 => ~(Len(shown.inputs) >= MenuMaxInputs)
     /\ handleInputCountChange(menu, delta)
     /\ selectedNodeIds' = <<menu>>
     /\ selectedWireIds' = <<>>
     /\ contextMenu' = menu
     /\ UNCHANGED <<numVars, truthTable, terms, collisions, camera, equation>>

NextGrow ==
  \/ GrowGenerate /\ EffectsFlushed
  \/ \E menu \in PointedNodeIds : \E delta \in {-1, 1} :
       GrowRequest(menu, delta) /\ EffectsFlushed

SpecGrow == InitGrow /\ [][NextGrow]_vars

-----------------------------------------------------------------------------
(* Arity runs: handleInputCountChange is called, with either delta, for a   *)
(* gate of every input count the handler allows.  The gate (id 1) is as the *)
(* editor leaves it after placing and resizing it, and an INPUT_SWITCH      *)
(* (id 2) that is off is wired to some of its pins; the context menu is     *)
(* open on the gate.                                                        *)

\* The sets of at most MaxWires pins of a gate of a inputs
PinSets(a) == {P \in SUBSET (0..(a - 1)) : Cardinality(P) <= MaxWires}

\* The pins of P in ascending order
RECURSIVE PinList(_)
PinList(P) == IF P = {} THEN <<>> ELSE <<SetMin(P)>> \o PinList(P \ {SetMin(P)})

InitArity ==
  /\ \E type \in VariableInputTypes : \E a \in MinInputs..MaxInputs :
       \E P \in PinSets(a) :
         /\ nodes = << MkNode(1, type, a, (a + 1) * PIN_SPACING),
                       MkNode(2, "INPUT_SWITCH", 0, ConfigHeight("INPUT_SWITCH")) >>
         /\ wires = [j \in 1..Cardinality(P) |-> MkWire(j, 2, 0, 1, PinList(P)[j])]
  /\ selectedNodeIds = <<1>>
  /\ selectedWireIds = <<>>
  /\ contextMenu = 1
  /\ numVars = 3
  /\ truthTable = Repeat(FALSE, 8)
  /\ terms = <<>>
  /\ lastOp = "init"
  /\ call = NoCall
  /\ collisions = 0
  /\ camera = InitialCamera
  /\ equation = ""
  /\ request = NoRequest
  /\ RefsSynced

\* onInputCountChange(delta) of the open context menu
ArityRequest(delta) ==
  /\ handleInputCountChange(contextMenu, delta)
  /\ UNCHANGED <<selectedNodeIds, selectedWireIds, contextMenu, numVars,
                 truthTable, terms, collisions, camera, equation>>

NextArity == \E delta \in {-1, 1} : ArityRequest(delta) /\ EffectsFlushed

SpecArity == InitArity /\ [][NextArity]_vars

-----------------------------------------------------------------------------
(* Load runs: handleLoadProject reads documents of every shape into a small *)
(* live model                                                               *)

\* Array.isArray(v)
IsArray(v) == v.kind = "array"

\* Array.isArray(projectData.nodes) alone
BasicValidationNodesOnly(doc) == IsArray(doc.nodes)

\* Array.isArray(projectData.nodes) && Array.isArray(projectData.wires)
BasicValidation(doc) == IsArray(doc.nodes) /\ IsArray(doc.wires)

\* if (projectData.camera): undefined and null are falsy, an object is not
Truthy(v) == v.kind \notin {"undefined", "null"}

\* reader.onload of handleLoadProject for a file of content doc.  JSON.parse
\* throws on text that is no JSON, and reading a property of null throws;
\* the catch block alerts and sets nothing.
LoadProject(doc) ==
  /\ IF doc.parses /\ ~doc.isNull /\ BasicValidation(doc)
     THEN /\ nodes' = doc.nodes.items
          /\ wires' = doc.wires.items
          /\ camera' = IF Truthy(doc.camera) THEN doc.camera.object ELSE camera
          /\ selectedNodeIds' = <<>>
          /\ selectedWireIds' = <<>>
     ELSE UNCHANGED <<nodes, wires, camera, selectedNodeIds, selectedWireIds>>
  /\ lastOp' = "load"
  /\ call' = NoCall
  /\ request' = [NoRequest EXCEPT !.document = doc]
  /\ UNCHANGED <<contextMenu, numVars, truthTable, terms, collisions, equation>>

\* A camera that was panned and zoomed
PannedCamera == [x |-> 40, y |-> -20, zoom |-> 2]

\* The node lists and wire lists of the live models and of the documents
LoadNodeLists ==
  {<<>>,
   << MkNode(1, "INPUT_SWITCH", 0, ConfigHeight("INPUT_SWITCH")) >>,
   << MkNode(1, "INPUT_SWITCH", 0, ConfigHeight("INPUT_SWITCH")),
      MkNode(2, "NOT", 1, ConfigHeight("NOT")) >>}

LoadWireLists == {<<>>, << MkWire(1, 1, 0, 2, 0) >>}

\* The values a property of a document can have
PropertyValues(arrays) ==
  {JsUndefined, JsNull, JsString, JsObject(InitialCamera)} \cup {JsArray(a) : a \in arrays}

Documents ==
  {NoDocument, [NoDocument EXCEPT !.parses = TRUE, !.isNull = TRUE]}
  \cup [parses : {TRUE}, isNull : {FALSE},
        nodes : PropertyValues(LoadNodeLists),
        wires : PropertyValues(LoadWireLists),
        camera : {JsUndefined, JsNull, JsObject(PannedCamera)}]

InitLoad ==
  /\ nodes \in LoadNodeLists
  /\ wires \in LoadWireLists
  /\ Len(wires) = 1 => Len(nodes) = 2
  /\ selectedNodeIds \in {<<>>} \cup {<<nodes[k].id>> : k \in 1..Len(nodes)}
  /\ selectedWireIds = <<>>
  /\ contextMenu = 0
  /\ numVars = 3
  /\ truthTable = Repeat(FALSE, 8)
  /\ terms = <<>>
  /\ lastOp = "init"
  /\ call = NoCall
  /\ collisions = 0
  /\ camera \in {InitialCamera, PannedCamera}
  /\ equation = ""
  /\ request = NoRequest
  /\ RefsSynced

NextLoad == \E doc \in Documents : LoadProject(doc) /\ EffectsFlushed

SpecLoad == InitLoad /\ [][NextLoad]_vars

-----------------------------------------------------------------------------
(* Equation runs: termsToEquation is called on every sequence of at most    *)
(* EqTerms terms of 1 to EqVars variables, with the names A, B, C, D        *)

\* ['A', 'B', 'C', 'D'].slice(0, numVars)
VariableNames(n) == SubSeq(<<"A", "B", "C", "D">>, 1, IF n < 4 THEN n ELSE 4)

InitEquation ==
  /\ nodes = <<>>
  /\ wires = <<>>
  /\ selectedNodeIds = <<>>
  /\ selectedWireIds = <<>>
  /\ contextMenu = 0
  /\ lastOp = "init"
  /\ call = NoCall
  /\ camera = InitialCamera
  /\ equation = ""
  /\ request = NoRequest
  /\ RefsSynced
  /\ collisions = 0
  /\ numVars \in 1..EqVars
  /\ truthTable = Repeat(FALSE, Pow2(numVars))
  /\ \E m \in 0..EqTerms : terms \in [1..m -> AllTerms(numVars)]

Render ==
  /\ lastOp = "init"
  /\ equation' = termsToEquation(terms, VariableNames(numVars))
  /\ lastOp' = "render"
  /\ UNCHANGED <<nodes, wires, selectedNodeIds, selectedWireIds, contextMenu,
                 numVars, truthTable, terms, call, collisions, camera, request>>

NextEquation == Render /\ EffectsFlushed

SpecEquation == InitEquation /\ [][NextEquation]_vars

-----------------------------------------------------------------------------
(* Gate runs: computeNodeLogic is called for a node of every kind with      *)
(* every input vector of 0 to LogicLen entries and either stored state      *)

InitLogic ==
  /\ \E type \in GateTypes : \E n \in 0..LogicLen :
       \E v \in [1..n -> BOOLEAN] : \E b \in BOOLEAN :
         nodes = << [id |-> 1, type |-> type, state |-> b, inputs |-> v,
                     height |-> ConfigHeight(type)] >>
  /\ wires = <<>>
  /\ selectedNodeIds = <<>>
  /\ selectedWireIds = <<>>
  /\ contextMenu = 0
  /\ numVars = 3
  /\ truthTable = Repeat(FALSE, 8)
  /\ terms = <<>>
  /\ lastOp = "init"
  /\ call = NoCall
  /\ collisions = 0
  /\ camera = InitialCamera
  /\ equation = ""
  /\ request = NoRequest
  /\ RefsSynced

\* node.state = computeNodeLogic(node, node.inputs)
Compute ==
  /\ lastOp = "init"
  /\ nodes' = << [nodes[1] EXCEPT
                    !.state = computeNodeLogic(nodes[1], nodes[1].inputs)] >>
  /\ lastOp' = "compute"
  /\ UNCHANGED <<wires, selectedNodeIds, selectedWireIds, contextMenu, numVars,
                 truthTable, terms, call, collisions, camera, equation, request>>

NextLogic == Compute /\ EffectsFlushed

SpecLogic == InitLogic /\ [][NextLogic]_vars

-----------------------------------------------------------------------------
(* Synthesis runs: generateCircuitFromTerms is called for every sequence of  *)
(* at most MaxTerms terms of 1 to MaxVars characters, of one term more for   *)
(* terms of at most ShortVars characters and of one term less for terms of   *)
(* MaxVars characters; the terms need not come from solveQuineMcCluskey.     *)
(* The fragment is kept in nodes and wires.                                  *)

TermBound(n) ==
  IF n <= ShortVars THEN MaxTerms + 1
  ELSE IF n < MaxVars THEN MaxTerms ELSE MaxTerms - 1

TermSequences(n) == UNION {[1..m -> AllTerms(n)] : m \in 0..TermBound(n)}

InitTerms ==
  /\ nodes = <<>>
  /\ wires = <<>>
  /\ selectedNodeIds = <<>>
  /\ selectedWireIds = <<>>
  /\ contextMenu = 0
  /\ numVars \in 1..MaxVars
  /\ truthTable = <<>>
  /\ terms \in TermSequences(numVars)
  /\ lastOp = "init"
  /\ call = NoCall
  /\ collisions = 0
  /\ camera = InitialCamera
  /\ equation = ""
  /\ request = NoRequest
  /\ RefsSynced

\* generateCircuitFromTerms(numVars, terms, startPos), its generateId calls
\* returning new ids, but for one that may repeat an earlier one
Synthesize ==
  LET dry == generateCircuitFromTerms(numVars, terms, FreshSupply({}),
                                      FreshSupply({}))
  IN /\ lastOp = "init"
     /\ \E g \in IdChoices({}, Len(dry.nodes), MaxCollisions) :
          \E h \in IdChoices({}, Len(dry.wires), MaxCollisions - g.cost) :
            LET frag == generateCircuitFromTerms(numVars, terms, g.ids, h.ids)
            IN /\ nodes' = frag.nodes
               /\ wires' = frag.wires
               /\ collisions' = g.cost + h.cost
     /\ lastOp' = "synthesize"
     /\ call' = NoCall
     /\ request' = NoRequest
     /\ UNCHANGED <<selectedNodeIds, selectedWireIds, contextMenu, numVars,
                    truthTable, terms, camera, equation>>

NextTerms == Synthesize /\ EffectsFlushed

SpecTerms == InitTerms /\ [][NextTerms]_vars

-----------------------------------------------------------------------------
(* Claims *)

\* The index of the current switch assignment of the generated circuit,
\* variable A (the first switch) as most significant bit
RECURSIVE AssignmentIndex(_)
AssignmentIndex(k) ==
  IF k = 0 THEN 0
  ELSE 2 * AssignmentIndex(k - 1) + (IF nodes[k].state THEN 1 ELSE 0)

\* The OUTPUT_LAMP the generator pushed last
LampState == nodes[Len(nodes)].state

\* C1: after the circuit generated from a truth table is merged and
\* stabilized, and after every later switch toggle followed by stabilize,
\* the output lamp tells whether the current switch assignment is a true
\* row of the table.
C1_RoundTrip ==
  lastOp \in {"stabilize", "toggle"} =>
    LampState = truthTable[AssignmentIndex(numVars) + 1]

\* Character i (from the left, 1-based) of the n-digit binary numeral of a
BinaryDigit(a, n, i) == IF (a \div Pow2(n - i)) % 2 = 1 THEN "1" ELSE "0"

\* The term matches assignment a
TermMatches(term, a) ==
  \A i \in 1..Len(term) :
    term[i] = "-" \/ term[i] = BinaryDigit(a, Len(term), i)

\* C3: an assignment is matched by at least one returned term if and only
\* if it is a true row of the truth table that was minimized.
C3_MinimizerSoundComplete ==
  lastOp = "minimize" =>
    \A a \in 0..(Pow2(numVars) - 1) :
      (\E k \in 1..Len(terms) : TermMatches(terms[k], a)) <=> truthTable[a + 1]

\* A 4-variable table, neither empty nor full, minimized to several terms
\* of which one has two don't-cares and one has none
C3_Witness ==
  /\ lastOp = "minimize"
  /\ numVars = 4
  /\ Len(terms) >= 3
  /\ \E k \in 1..Len(terms) :
       Cardinality({i \in 1..4 : terms[k][i] = "-"}) = 2
  /\ \E k \in 1..Len(terms) : \A i \in 1..4 : terms[k][i] # "-"

-----------------------------------------------------------------------------
(* Claims about propagateCircuit as a function (SpecProp) *)

\* The nodes (by position) that drive node v through a wire
Drivers(ns, ws, v) ==
  {u \in 1..Len(ns) :
     \E k \in 1..Len(ws) :
       ws[k].sourceNodeId = ns[u].id /\ ws[k].targetNodeId = ns[v].id}

\* The largest number of non-source elements on a path that ends at node
\* v, found with at most fuel further steps back; 1000 or more when the
\* steps run out, which only a cycle can cause when fuel = Len(ns)
RECURSIVE GatesBehind(_, _, _, _)
GatesBehind(ns, ws, v, fuel) ==
  IF fuel = 0 THEN 1000
  ELSE (IF ns[v].type \in SourceTypes THEN 0 ELSE 1)
       + SetMax({0} \cup {GatesBehind(ns, ws, u, fuel - 1) :
                            u \in Drivers(ns, ws, v)})

GateDepth(ns, ws) ==
  SetMax({0} \cup {GatesBehind(ns, ws, v, Len(ns)) : v \in 1..Len(ns)})

Acyclic(ns, ws) == GateDepth(ns, ws) < 1000

\* The rounds after which nothing changes any more in an acyclic model: an
\* element settles in the round of its depth, a connection one round after
\* its source
SettleRounds(ns, ws) ==
  SetMax({GateDepth(ns, ws)}
         \cup {GatesBehind(ns, ws, NodeMapGet(ns, ws[k].sourceNodeId), Len(ns)) + 1 :
                 k \in {j \in 1..Len(ws) : NodeMapGet(ns, ws[j].sourceNodeId) # 0}})

\* A further stabilize call on the live model changes nothing
SecondCallChangesNothing ==
  LET r == propagateCircuit(nodes, wires)
  IN r.nodes = nodes /\ r.wires = wires

\* C4 as stated: on every acyclic model, whatever its depth and stored
\* states, a second stabilize call changes no element output, input state
\* or connection state.
C4_IdempotentAnyDepth ==
  (lastOp = "stabilize" /\ Acyclic(nodes, wires)) => SecondCallChangesNothing

\* C4 amended: the same on every acyclic model in which no path runs
\* through more than MAX_ITERATIONS (20) elements other than sources and no
\* connection leaves an element at the end of a path of 20 such elements.
C4_IdempotentWithinCap ==
  (lastOp = "stabilize" /\ SettleRounds(nodes, wires) <= MAX_ITERATIONS)
    => SecondCallChangesNothing

\* A chain of exactly 20 gates whose first call ran all 20 rounds, leaving
\* at the cap, and changed the last gate
C4_Witness ==
  /\ lastOp = "stabilize"
  /\ GateDepth(nodes, wires) = MAX_ITERATIONS
  /\ SettleRounds(nodes, wires) = MAX_ITERATIONS
  /\ call.iteration = MAX_ITERATIONS
  /\ ~call.stabilityReached
  /\ call.argNodes[Len(nodes)].state # nodes[Len(nodes)].state

\* The models after 0, 1, ..., k passes of the loop body on (ns, ws), given
\* the trace up to (ns, ws)
RECURSIVE RoundTraceFrom(_, _, _, _)
RoundTraceFrom(ns, ws, k, trace) ==
  IF k > 0
  THEN LET r == Round(ns, ws)
       IN IF r.threw THEN trace
          ELSE RoundTraceFrom(r.nodes, r.wires, k - 1,
                              Append(trace, [nodes |-> r.nodes, wires |-> r.wires]))
  ELSE trace

RoundTrace(ns, ws, k) ==
  RoundTraceFrom(ns, ws, k, << [nodes |-> ns, wires |-> ws] >>)

\* Between two models of equal shape, a connection state or an element
\* output differs
StatesDiffer(a, b) ==
  \/ \E k \in 1..Len(a.wires) : a.wires[k].state # b.wires[k].state
  \/ \E k \in 1..Len(a.nodes) : a.nodes[k].state # b.nodes[k].state

\* C5: every stabilize call returns after at least one and at most 20
\* rounds; it returns after round k < 20 exactly when round k is the first
\* round that changes no connection state and no element output.
C5_BoundedRounds ==
  lastOp = "stabilize" =>
    LET k == call.iteration
        tr == RoundTrace(call.argNodes, call.argWires, k)
    IN /\ ~call.threw
       /\ k \in 1..MAX_ITERATIONS
       /\ Len(tr) = k + 1
       /\ nodes = tr[k + 1].nodes /\ wires = tr[k + 1].wires
       /\ \A r \in 1..(k - 1) : StatesDiffer(tr[r], tr[r + 1])
       /\ k < MAX_ITERATIONS => ~StatesDiffer(tr[k], tr[k + 1])

\* A NOT element wired to its own input: the call ran 20 rounds and left
\* without a quiet round
C5_Witness ==
  /\ lastOp = "stabilize"
  /\ call.iteration = MAX_ITERATIONS
  /\ ~call.stabilityReached
  /\ \E v \in 1..Len(nodes) :
       /\ nodes[v].type = "NOT"
       /\ \E k \in 1..Len(wires) :
            /\ wires[k].sourceNodeId = nodes[v].id
            /\ wires[k].targetNodeId = nodes[v].id
            /\ wires[k].targetPinIndex = 0

\* What the caller's own records hold once the call has returned: a record
\* the call assigned to holds the call's values, any other is as it was
ArgNodeAfter(k) ==
  [call.argNodes[k] EXCEPT
     !.state = IF [owner |-> "arg", kind |-> "node", index |-> k] \in call.written
               THEN call.nodes[k].state ELSE @,
     !.inputs = IF \/ [owner |-> "arg", kind |-> "node", index |-> k] \in call.written
                   \/ [owner |-> "arg", kind |-> "inputs", index |-> k] \in call.written
                THEN call.nodes[k].inputs ELSE @]

ArgWireAfter(k) ==
  [call.argWires[k] EXCEPT
     !.state = IF [owner |-> "arg", kind |-> "wire", index |-> k] \in call.written
               THEN call.wires[k].state ELSE @]

FanInOk(ws) ==
  \A j, k \in 1..Len(ws) :
    (ws[j].targetNodeId = ws[k].targetNodeId
     /\ ws[j].targetPinIndex = ws[k].targetPinIndex) => j = k

\* The reorderings of a list of n entries that are tried: all of them for a
\* list of at most PermLen entries, the reversal and the two rotations by
\* one beside the identity for a longer one
ListPermutations(n) ==
  IF n <= PermLen
  THEN {p \in [1..n -> 1..n] : \A i, j \in 1..n : p[i] = p[j] => i = j}
  ELSE {[k \in 1..n |-> k], [k \in 1..n |-> n + 1 - k],
        [k \in 1..n |-> (k % n) + 1], [k \in 1..n |-> ((k + n - 2) % n) + 1]}

Permuted(s, p) == [k \in 1..Len(s) |-> s[p[k]]]

SourceMissing(ns, w) == NodeMapGet(ns, w.sourceNodeId) = 0

TargetMissing(ns, w) == NodeMapGet(ns, w.targetNodeId) = 0

\* C9: when a connection's source or target id is the id of no element,
\* stabilize still returns; a connection without source is skipped by the
\* connection update and keeps its state; a connection without target is
\* read by no element, so everything else comes out as it does without it;
\* and everything else comes out as it does when a source-less connection
\* simply holds its state (as if driven by a switch of that state).
C9_DanglingSkipped ==
  (lastOp = "stabilize"
   /\ \E k \in 1..Len(call.argWires) :
        SourceMissing(call.argNodes, call.argWires[k])
        \/ TargetMissing(call.argNodes, call.argWires[k])) =>
    LET an == call.argNodes
        aw == call.argWires
        kept == KeptPositions(aw, LAMBDA w : ~TargetMissing(an, w))
        without == propagateCircuit(an, [i \in 1..Len(kept) |-> aw[kept[i]]])
        orphans == {k \in 1..Len(aw) : SourceMissing(an, aw[k])}
        held == {aw[k].state : k \in orphans}
        missingIds == {aw[k].sourceNodeId : k \in orphans}
        switch(id, st) == [id |-> id, type |-> "INPUT_SWITCH", state |-> st,
                           inputs |-> <<>>, height |-> 50]
    IN /\ ~call.threw
       /\ call.iteration \in 1..MAX_ITERATIONS
       /\ \A k \in orphans : wires[k].state = aw[k].state
       /\ without.nodes = nodes
       /\ without.wires = [i \in 1..Len(kept) |-> wires[kept[i]]]
       /\ (Cardinality(held) = 1 /\ Cardinality(missingIds) = 1) =>
            LET driven == propagateCircuit(
                            Append(an, switch(CHOOSE id \in missingIds : TRUE,
                                              CHOOSE st \in held : TRUE)), aw)
            IN /\ SubSeq(driven.nodes, 1, Len(an)) = nodes
               /\ driven.wires = wires

\* A source-less connection holding true on the pin of a gate whose output
\* the call changed, next to a target-less connection whose state the call
\* changed
C9_Witness ==
  /\ lastOp = "stabilize"
  /\ Len(wires) = 2
  /\ SourceMissing(nodes, wires[1]) /\ ~TargetMissing(nodes, wires[1])
  /\ wires[1].state
  /\ TargetMissing(nodes, wires[2]) /\ ~SourceMissing(nodes, wires[2])
  /\ wires[2].state # call.argWires[2].state
  /\ \E k \in 1..Len(nodes) : nodes[k].state # call.argNodes[k].state

-----------------------------------------------------------------------------
(* Claims about the editor (Spec) *)

\* Some wire targets input pin i (counted from 0) of the nodes of id
Targeted(id, i) ==
  \E k \in 1..Len(wires) :
    wires[k].targetNodeId = id /\ wires[k].targetPinIndex = i

\* C2: when the handler that ran last made a stabilize call, every element
\* that is neither INPUT_SWITCH nor CLOCK has output f(kind, input states).
C2_OutputIsFunction ==
  call.made =>
    \A k \in 1..Len(nodes) :
      nodes[k].type \notin SourceTypes =>
        nodes[k].state = computeNodeLogic(nodes[k], nodes[k].inputs)

\* C6: when the handler that ran last made a stabilize call, every input pin
\* of an element that is neither INPUT_SWITCH nor CLOCK that no connection
\* targets holds false, and an AND element no connection targets has output
\* false.
C6_FloatingLow ==
  call.made =>
    \A k \in 1..Len(nodes) :
      nodes[k].type \notin SourceTypes =>
        /\ \A p \in 1..Len(nodes[k].inputs) :
             ~Targeted(nodes[k].id, p - 1) => nodes[k].inputs[p] = FALSE
        /\ (/\ nodes[k].type = "AND"
            /\ \A p \in 1..Len(nodes[k].inputs) : ~Targeted(nodes[k].id, p - 1))
             => nodes[k].state = FALSE

\* C10: in every model the editor reaches, at most one connection targets
\* any (targetNodeId, targetPinIndex) pair.
C10_FanIn == FanInOk(wires)

\* Every wire names a pin its target has: whichever node carries the target
\* id, the pin index is below the number of its inputs
PinIndexOk(ns, ws) ==
  \A j \in 1..Len(ws) : \A k \in 1..Len(ns) :
    ns[k].id = ws[j].targetNodeId => ws[j].targetPinIndex < Len(ns[k].inputs)

\* The step of an arity decrease of the nodes of request'.nodeId removes the
\* wires that target one of their removed pins and no other wire
ArityDecreaseExact ==
  (lastOp' = "arity" /\ request'.delta = -1) =>
    LET id == request'.nodeId
        removed == UNION {{i \in Len(nodes'[k].inputs)..(Len(nodes[k].inputs) - 1) : TRUE} :
                            k \in {j \in 1..Len(nodes) : nodes[j].id = id}}
    IN wires' = SelectSeq(wires, LAMBDA w :
                  ~(w.targetNodeId = id /\ w.targetPinIndex \in removed))

\* C11: in every model the editor reaches, every connection has
\* targetPinIndex below the number of inputs of its target element, and an
\* arity decrease removes exactly the connections that target a removed pin
\* of that element.
C11_PinIndex == [](PinIndexOk(nodes, wires)) /\ [][ArityDecreaseExact]_vars

\* The step of a delete of the nodes request'.nodeIds and the wires
\* request'.wireIds leaves no wire with an end at a deleted node, and keeps
\* every node that was not named and every wire that was neither named nor
\* attached to a deleted node
DeleteCascade ==
  lastOp' = "delete" =>
    LET D == request'.nodeIds
        W == request'.wireIds
    IN /\ \A k \in 1..Len(nodes') : nodes'[k].id \notin D
       /\ \A j \in 1..Len(wires') :
            wires'[j].sourceNodeId \notin D /\ wires'[j].targetNodeId \notin D
       /\ \A k \in 1..Len(nodes) :
            nodes[k].id \notin D => nodes[k] \in Range(nodes')
       /\ \A j \in 1..Len(wires) :
            (/\ wires[j].id \notin W
             /\ wires[j].sourceNodeId \notin D
             /\ wires[j].targetNodeId \notin D) => wires[j] \in Range(wires')

\* C12: after a delete, no remaining connection has a deleted element as its
\* source or target, and the elements and connections that were neither
\* selected nor attached to a deleted element remain in the model.
C12_DeleteCascade == [][DeleteCascade]_vars

\* An element with two attached connections was deleted, both connections
\* are gone, and another element remains
C12_Witness ==
  /\ lastOp = "delete"
  /\ request.nodeIds # {}
  /\ request.attached = 2
  /\ wires = <<>>
  /\ Len(nodes) >= 1

-----------------------------------------------------------------------------
(* Claims about handleInputCountChange as called from the menu (SpecArity) *)

\* The step of a request to shrink a gate of MinInputs inputs, or to grow one
\* of MaxInputs inputs, changes no node and no wire
InvalidArityNoOp ==
  (/\ lastOp' = "arity"
   /\ \/ request'.delta = -1 /\ request'.inputCount = MinInputs
      \/ request'.delta = 1 /\ request'.inputCount = MaxInputs)
    => nodes' = nodes /\ wires' = wires

\* C13: a request to shrink a variable-arity gate that has 2 inputs, or to
\* grow one that has 8, leaves the element (inputs, height, output) and all
\* connections unchanged.
C13_InvalidArityNoOp == [][InvalidArityNoOp]_vars

\* A gate of 8 inputs with two connections was asked to grow
C13_Witness ==
  /\ lastOp = "arity"
  /\ request.delta = 1
  /\ request.inputCount = MaxInputs
  /\ request.attached = 2
  /\ Len(nodes[1].inputs) = MaxInputs
  /\ Len(wires) = 2

-----------------------------------------------------------------------------
(* Claims about handleLoadProject (SpecLoad) *)

\* The document parses to an object whose nodes and wires properties are
\* both present as sequences
PresentAsSequences(doc) ==
  /\ doc.parses
  /\ ~doc.isNull
  /\ doc.nodes.kind = "array"
  /\ doc.wires.kind = "array"

\* The step of a load replaces the nodes and wires by the document's when
\* the document has both as sequences, and otherwise leaves nodes, wires,
\* camera and selection as they were
LoadValidated ==
  lastOp' = "load" =>
    LET doc == request'.document
    IN IF PresentAsSequences(doc)
       THEN nodes' = doc.nodes.items /\ wires' = doc.wires.items
       ELSE UNCHANGED <<nodes, wires, camera, selectedNodeIds, selectedWireIds>>

\* C14: loading a document whose nodes or wires field is missing or not a
\* sequence, or that fails to parse, leaves elements, connections, camera and
\* selection unchanged; a document with both fields present as sequences
\* replaces the model.
C14_LoadValidated == [][LoadValidated]_vars

\* A document with a nodes array, no wires property and a camera was read
\* into a model with a selection, which stays as it was
C14_Witness ==
  /\ lastOp = "load"
  /\ request.document.parses
  /\ request.document.nodes.kind = "array"
  /\ request.document.wires.kind = "undefined"
  /\ request.document.camera.kind = "object"
  /\ Len(nodes) = 2
  /\ request.document.nodes.items # nodes
  /\ Len(wires) = 1
  /\ selectedNodeIds # <<>>
  /\ camera = InitialCamera

-----------------------------------------------------------------------------
(* Claims about the handlers and propagateCircuit (Spec) *)

\* The handlers that change the topology or flip a switch or a clock
ChangingOps == {"connect", "delete", "arity", "generate", "toggle", "tick"}

\* A step of one of these handlers that changes the model made a
\* propagateCircuit call and set the model to what the call returned
StabilizedAfterChange ==
  (lastOp' \in ChangingOps /\ (nodes' # nodes \/ wires' # wires)) =>
    call'.made /\ nodes' = call'.nodes /\ wires' = call'.wires

\* C15: after each connection creation, element or connection deletion,
\* arity change, fragment merge, switch toggle and clock flip, the live model
\* is the result of a stabilize call on the changed model.
C15_StabilizeAfterChange == [][StabilizedAfterChange]_vars

-----------------------------------------------------------------------------
(* Claims about solveQuineMcCluskey (SpecQM) *)

\* The minterms that were passed: the true rows in ascending order
Minterms == MintermsOf(truthTable, 1)

\* The implementation the last call ran
Solve(n, minterms) ==
  IF lastOp = "minimizeUnsorted" THEN solveQuineMcCluskeyUnsorted(n, minterms)
  ELSE solveQuineMcCluskey(n, minterms)

\* C16: on the empty set the result is the empty sequence, on the set of all
\* 2^numVars values it is the one term of numVars don't-cares, and neither
\* call goes on to the combination loop.
C16_DegenerateInputs ==
  lastOp = "minimize" =>
    /\ (\A a \in 1..Pow2(numVars) : ~truthTable[a]) =>
         terms = <<>> /\ FastPath(numVars, Minterms) # "none"
    /\ (\A a \in 1..Pow2(numVars) : truthTable[a]) =>
         terms = << Repeat("-", numVars) >> /\ FastPath(numVars, Minterms) # "none"

\* The full table of 4 variables was minimized
C16_Witness ==
  /\ lastOp = "minimize"
  /\ numVars = 4
  /\ \A a \in 1..16 : truthTable[a]
  /\ terms = << <<"-", "-", "-", "-">> >>

\* The terms are in ascending order of their characters' code units and
\* none comes twice
SortedNoDuplicates(ts) ==
  \A i \in 1..(Len(ts) - 1) : StrLess(ts[i], ts[i + 1], 1)

\* C17: for every reordering of the same minterms the result is the same
\* sequence of terms, and it is sorted in ascending order with no duplicates.
C17_OrderIndependentSorted ==
  lastOp \in {"minimize", "minimizeUnsorted"} =>
    /\ SortedNoDuplicates(terms)
    /\ \A p \in ListPermutations(Len(Minterms)) :
         Solve(numVars, Permuted(Minterms, p)) = terms

\* The same for the implementation of quineMcCluskey.ts alone
C17_SortedImplementation ==
  lastOp = "minimize" =>
    /\ SortedNoDuplicates(terms)
    /\ \A p \in ListPermutations(Len(Minterms)) :
         solveQuineMcCluskey(numVars, Permuted(Minterms, p)) = terms

\* Every assignment the term matches is a true row
Implicant(t) ==
  \A a \in 0..(Pow2(numVars) - 1) : TermMatches(t, a) => truthTable[a + 1]

\* Replacing any one 0/1 position by a don't-care makes the term match a
\* false row
Prime(t) ==
  \A i \in 1..Len(t) :
    t[i] # "-" => ~Implicant([t EXCEPT ![i] = "-"])

\* C18: a term of length numVars is returned if and only if every assignment
\* it matches is a true row and replacing any one of its 0/1 positions by a
\* don't-care makes it match a false row.
C18_AllPrimeImplicants ==
  lastOp = "minimize" =>
    \A t \in AllTerms(numVars) :
      (\E k \in 1..Len(terms) : terms[k] = t) <=> (Implicant(t) /\ Prime(t))

\* A 4-variable table with five prime implicants, one of which covers no
\* row the others leave uncovered
C18_Witness ==
  /\ lastOp = "minimize"
  /\ numVars = 4
  /\ Len(terms) >= 5
  /\ \E k \in 1..Len(terms) :
       \A a \in 0..15 :
         TermMatches(terms[k], a) =>
           \E j \in 1..Len(terms) : j # k /\ TermMatches(terms[j], a)

-----------------------------------------------------------------------------
(* Claims about termsToEquation (SpecEquation) *)

\* The product string of a term: the name for a 1, the name followed by an
\* apostrophe for a 0, nothing for a don't-care, position by position
RECURSIVE ProductString(_, _)
ProductString(t, names) ==
  IF t = <<>> THEN ""
  ELSE LET n == Len(t)
           literal == IF t[n] = "1" THEN names[n]
                      ELSE IF t[n] = "0" THEN names[n] \o "'"
                      ELSE ""
       IN ProductString(SubSeq(t, 1, n - 1), names) \o literal

\* The product strings of the terms in order, joined by " + "
RECURSIVE SumString(_, _)
SumString(ts, names) ==
  IF Len(ts) = 1 THEN ProductString(ts[1], names)
  ELSE SumString(SubSeq(ts, 1, Len(ts) - 1), names) \o " + "
         \o ProductString(ts[Len(ts)], names)

\* C19: the equation is "0 (False)" for no terms, "1 (True)" when some term
\* is all don't-cares, and otherwise the product strings of the terms in
\* order joined by " + "; the terms 01, 10 with the names A, B give
\* "A'B + AB'".
C19_RenderEquation ==
  lastOp = "render" =>
    /\ equation =
         IF terms = <<>> THEN "0 (False)"
         ELSE IF \E k \in 1..Len(terms) : terms[k] = Repeat("-", numVars)
              THEN "1 (True)"
              ELSE SumString(terms, VariableNames(numVars))
    /\ terms = << <<"0", "1">>, <<"1", "0">> >> => equation = "A'B + AB'"

\* The terms 01, 10 were rendered
C19_Witness ==
  /\ lastOp = "render"
  /\ terms = << <<"0", "1">>, <<"1", "0">> >>
  /\ equation = "A'B + AB'"

-----------------------------------------------------------------------------
(* Claims about generateId (Spec) *)

\* C20: in every model the editor reaches by placement, connection
\* creation, duplication and fragment merge, no two elements share an id and
\* no two connections share an id.
C20_UniqueIds ==
  /\ \A i, j \in 1..Len(nodes) : nodes[i].id = nodes[j].id => i = j
  /\ \A i, j \in 1..Len(wires) : wires[i].id = wires[j].id => i = j

-----------------------------------------------------------------------------
(* Claims about computeNodeLogic (SpecLogic) *)

\* The number of true entries of v
RECURSIVE CountTrue(_)
CountTrue(v) ==
  IF v = <<>> THEN 0 ELSE (IF Head(v) THEN 1 ELSE 0) + CountTrue(Tail(v))

\* The truth table of a gate kind on a vector of at least one entry
GateTable(type, v) ==
  CASE type = "AND"  -> CountTrue(v) = Len(v)
    [] type = "OR"   -> CountTrue(v) > 0
    [] type = "NAND" -> ~(CountTrue(v) = Len(v))
    [] type = "NOR"  -> ~(CountTrue(v) > 0)
    [] type = "XOR"  -> CountTrue(v) % 2 = 1
    [] type = "NOT"  -> ~v[1]
    [] type = "OUTPUT_LAMP" -> v[1]

\* C21: on a vector of n >= 1 entries AND is all, OR is any, NAND is not
\* AND, NOR is not OR, XOR is odd parity, OUTPUT_LAMP is the first entry and,
\* on one entry, NOT is its negation; on the empty vector every kind other
\* than INPUT_SWITCH and CLOCK gives false.
C21_GateTables ==
  (lastOp = "compute" /\ nodes[1].type \notin SourceTypes) =>
    LET type == nodes[1].type
        v == nodes[1].inputs
    IN /\ Len(v) = 0 => nodes[1].state = FALSE
       /\ (Len(v) >= 1 /\ (type = "NOT" => Len(v) = 1)) =>
            nodes[1].state = GateTable(type, v)

\* An XOR of four inputs of which three are true was computed to true
C21_Witness ==
  /\ lastOp = "compute"
  /\ nodes[1].type = "XOR"
  /\ nodes[1].inputs = <<TRUE, FALSE, TRUE, TRUE>>
  /\ nodes[1].state

-----------------------------------------------------------------------------
(* Claims about the clock interval and the user's events (SpecRace) *)

\* A tick step worked on the model as it was committed before the tick: the
\* propagateCircuit call got the committed elements, clocks flipped, and the
\* committed connections, and the model the tick sets has the committed
\* model's elements and connections with every switch as the user left it
TickOnLatest ==
  (lastOp' = "tick" /\ ~call'.threw) =>
    /\ call'.argNodes = ClocksFlipped(nodes)
    /\ call'.argWires = wires
    /\ Len(nodes') = Len(nodes)
    /\ \A k \in 1..Len(nodes) :
         /\ nodes'[k].id = nodes[k].id
         /\ Len(nodes'[k].inputs) = Len(nodes[k].inputs)
         /\ nodes[k].type = "INPUT_SWITCH" => nodes'[k].state = nodes[k].state
    /\ [k \in 1..Len(wires') |-> wires'[k].id]
         = [k \in 1..Len(wires) |-> wires[k].id]

-----------------------------------------------------------------------------
(* Claims about handleInputCountChange on generated gates (SpecGrow) *)

\* The step of a request to grow a gate that has MaxInputs inputs or more
\* takes no input pin from any element and removes no connection
GrowAtCeilingNoOp ==
  (lastOp' = "arity" /\ request'.delta = 1 /\ request'.inputCount >= MaxInputs)
    => /\ \A k \in 1..Len(nodes) :
            Len(nodes'[k].inputs) >= Len(nodes[k].inputs)
       /\ wires' = wires

\* C23: a request to grow a variable-arity gate whose input count is at or
\* above the ceiling of 8, an OR gate the generator made with more than 8
\* pins included, is a no-op: it never reduces the number of input pins and
\* never removes a connection.
C23_GrowAtCeiling == [][GrowAtCeilingNoOp]_vars

-----------------------------------------------------------------------------
(* Further claims about propagateCircuit as a function (SpecProp) *)

\* C24: a stabilize call changes state fields only: it returns the same
\* elements and connections in the same order, with the ids, kinds,
\* endpoints and input-vector lengths it was passed, and the output of every
\* INPUT_SWITCH and CLOCK element as it was passed.
C24_StateFieldsOnly ==
  lastOp = "stabilize" =>
    /\ Len(nodes) = Len(call.argNodes)
    /\ Len(wires) = Len(call.argWires)
    /\ \A k \in 1..Len(nodes) :
         /\ nodes[k] = [call.argNodes[k] EXCEPT !.state = nodes[k].state,
                                                !.inputs = nodes[k].inputs]
         /\ Len(nodes[k].inputs) = Len(call.argNodes[k].inputs)
         /\ nodes[k].type \in SourceTypes => nodes[k] = call.argNodes[k]
    /\ \A k \in 1..Len(wires) :
         wires[k] = [call.argWires[k] EXCEPT !.state = wires[k].state]

\* A call on a CLOCK that is on, wired to a gate whose output and input the
\* call changed, the connection's state with them
C24_Witness ==
  /\ lastOp = "stabilize"
  /\ Len(nodes) = 2 /\ Len(wires) >= 1
  /\ nodes[1].type = "CLOCK" /\ nodes[1].state
  /\ nodes[2].type = "NOT"
  /\ wires[1].sourceNodeId = 1 /\ wires[1].targetNodeId = 2
  /\ wires[1].state # call.argWires[1].state
  /\ nodes[2].state # call.argNodes[2].state
  /\ nodes[2].inputs # call.argNodes[2].inputs

\* Every wire whose source exists holds its source's output
WiresMirrorSources(ns, ws) ==
  \A k \in 1..Len(ws) :
    NodeMapGet(ns, ws[k].sourceNodeId) # 0 =>
      ws[k].state = ns[NodeMapGet(ns, ws[k].sourceNodeId)].state

\* Every input pin of a non-source node holds the state of every wire that
\* targets it
PinsMirrorWires(ns, ws) ==
  \A v \in 1..Len(ns) : \A k \in 1..Len(ws) :
    (/\ ns[v].type \notin SourceTypes
     /\ ws[k].targetNodeId = ns[v].id
     /\ ws[k].targetPinIndex < Len(ns[v].inputs)) =>
       ns[v].inputs[ws[k].targetPinIndex + 1] = ws[k].state

\* C25: whenever a stabilize call returns because a full round produced no
\* change, every connection whose source element exists has the state of
\* that element's output, and every connected input pin of an element other
\* than INPUT_SWITCH and CLOCK has the state of the connection targeting it.
C25_MirrorsSource ==
  (lastOp = "stabilize" /\ call.stabilityReached) =>
    WiresMirrorSources(nodes, wires) /\ PinsMirrorWires(nodes, wires)

\* C29: a connection whose source element is missing keeps its cached state
\* across every stabilize call, and that state is read as the value of its
\* target pin: a dangling connection cached true keeps feeding true to its
\* target.
C29_DanglingFeeds ==
  lastOp = "stabilize" =>
    \A k \in 1..Len(wires) :
      SourceMissing(nodes, wires[k]) =>
        /\ wires[k].state = call.argWires[k].state
        /\ \A v \in 1..Len(nodes) :
             (/\ nodes[v].type \notin SourceTypes
              /\ wires[k].targetNodeId = nodes[v].id
              /\ wires[k].targetPinIndex < Len(nodes[v].inputs)) =>
                nodes[v].inputs[wires[k].targetPinIndex + 1] = wires[k].state

-----------------------------------------------------------------------------
(* Claims about generateCircuitFromTerms (SpecTerms).  The fragment lists    *)
(* the INPUT_SWITCH of variable i at position i, then the NOT elements in    *)
(* the order of their variables, then the AND elements in the order of their *)
(* terms, then the OR element if there is one, then the OUTPUT_LAMP.         *)

\* The variable positions that have "0" in some term
NegatedPositions ==
  {i \in 1..numVars : \E k \in 1..Len(terms) : terms[k][i] = "0"}

\* The positions of the literals of a term, in order
LiteralPositions(t) == KeptPositions(t, LAMBDA c : c # "-")

\* The place in the fragment of the NOT element of variable i
NotPlace(i) == numVars + Cardinality({j \in NegatedPositions : j <= i})

\* The places of the elements of a kind
PlacesOf(type) == {v \in 1..Len(nodes) : nodes[v].type = type}

\* The id of the element that gives the literal at position i of term t
LiteralSource(t, i) ==
  IF t[i] = "1" THEN nodes[i].id ELSE nodes[NotPlace(i)].id

\* The terms with two literals or more
AndTerms == {k \in 1..Len(terms) : Len(LiteralPositions(terms[k])) >= 2}

\* The place in the fragment of the AND element of term k
AndPlace(k) ==
  numVars + Cardinality(NegatedPositions)
    + Cardinality({j \in AndTerms : j <= k})

\* A connection runs from output 0 of src to input pin of tgt
Wired(src, tgt, pin) ==
  \E w \in 1..Len(wires) :
    /\ wires[w].sourceNodeId = src /\ wires[w].sourcePinIndex = 0
    /\ wires[w].targetNodeId = tgt /\ wires[w].targetPinIndex = pin

\* The place in the connection list of the connection into the NOT element
\* of variable i: the generator pushes these first, one per NOT
NotWire(i) == Cardinality({j \in NegatedPositions : j <= i})

\* C26: for every sequence of terms the fragment has exactly one NOT
\* element for each variable position that has "0" in some term and none for
\* the others; that NOT has a single input, wired from the variable's
\* INPUT_SWITCH; and every "0" literal at that position, in any term, is
\* wired from that NOT.
C26_SharedInverters ==
  lastOp = "synthesize" =>
    /\ PlacesOf("NOT") = {NotPlace(i) : i \in NegatedPositions}
    /\ Cardinality(PlacesOf("NOT")) = Cardinality(NegatedPositions)
    /\ \A i \in NegatedPositions :
         /\ Len(nodes[NotPlace(i)].inputs) = 1
         /\ nodes[i].type = "INPUT_SWITCH"
         /\ wires[NotWire(i)] =
              MkWire(wires[NotWire(i)].id, nodes[i].id, 0, nodes[NotPlace(i)].id, 0)
    /\ \A k \in AndTerms :
         LET lits == LiteralPositions(terms[k])
         IN \A j \in 1..Len(lits) :
              terms[k][lits[j]] = "0" =>
                Wired(nodes[NotPlace(lits[j])].id, nodes[AndPlace(k)].id, j - 1)

\* The terms 00 and 0- were given: one NOT for A feeds the AND of the first
\* term and stands for the second term, one NOT for B feeds the AND
C26_Witness ==
  /\ lastOp = "synthesize"
  /\ collisions = 0
  /\ terms = << <<"0", "0">>, <<"0", "-">> >>
  /\ Cardinality(PlacesOf("NOT")) = 2
  /\ Cardinality(PlacesOf("AND")) = 1
  /\ Wired(nodes[3].id, nodes[5].id, 0)
  /\ Wired(nodes[4].id, nodes[5].id, 1)

\* The terms that have a literal, and the place of term k among them
ProductTermSet == {k \in 1..Len(terms) : Len(LiteralPositions(terms[k])) >= 1}

ProductRank(k) == Cardinality({j \in ProductTermSet : j <= k})

\* The id of the element whose output is the product of term k: its AND
\* element, or the source of its only literal
ProductId(k) ==
  IF k \in AndTerms THEN nodes[AndPlace(k)].id
  ELSE LiteralSource(terms[k], LiteralPositions(terms[k])[1])

\* The place of the OUTPUT_LAMP, which the generator pushes last, and of the
\* OR element, which it pushes just before
LampPlace == Len(nodes)

OrPlace == Len(nodes) - 1

\* C27: for every term with k >= 2 literals the fragment has exactly one AND
\* element, of k input pins, pin j wired from the j-th literal of the term
\* (the variable's INPUT_SWITCH for "1", the shared NOT for "0"); for a term
\* with one literal it has no AND element, and the literal's signal goes on
\* as the term's product: to the term's pin of the OR element, or to the
\* lamp when no other term has a literal.
C27_TermProducts ==
  lastOp = "synthesize" =>
    /\ PlacesOf("AND") = {AndPlace(k) : k \in AndTerms}
    /\ Cardinality(PlacesOf("AND")) = Cardinality(AndTerms)
    /\ \A k \in AndTerms :
         LET lits == LiteralPositions(terms[k])
         IN /\ Len(nodes[AndPlace(k)].inputs) = Len(lits)
            /\ \A j \in 1..Len(lits) :
                 Wired(LiteralSource(terms[k], lits[j]), nodes[AndPlace(k)].id, j - 1)
    /\ \A k \in ProductTermSet \ AndTerms :
         IF Cardinality(ProductTermSet) >= 2
         THEN Wired(ProductId(k), nodes[OrPlace].id, ProductRank(k) - 1)
         ELSE Wired(ProductId(k), nodes[LampPlace].id, 0)

\* The terms 1-0 and -0- were given: an AND of two pins for the first, pin 0
\* from switch A and pin 1 from the NOT of C, and none for the second, whose
\* NOT of B goes to pin 1 of the OR
C27_Witness ==
  /\ lastOp = "synthesize"
  /\ collisions = 0
  /\ terms = << <<"1", "-", "0">>, <<"-", "0", "-">> >>
  /\ PlacesOf("AND") = {6}
  /\ Len(nodes[6].inputs) = 2
  /\ Wired(nodes[1].id, nodes[6].id, 0)
  /\ Wired(nodes[5].id, nodes[6].id, 1)
  /\ nodes[7].type = "OR"
  /\ Wired(nodes[4].id, nodes[7].id, 1)

\* C28: the fragment always has exactly one OUTPUT_LAMP, of one input; with
\* no term no connection ends at the lamp; with exactly one term the term's
\* product is wired to the lamp and there is no OR element; with m >= 2
\* terms there is exactly one OR element, of m input pins, product i wired
\* to its pin i and its output wired to the lamp.
C28_SumStage ==
  lastOp = "synthesize" =>
    LET m == Len(terms)
        lamp == nodes[LampPlace]
    IN /\ PlacesOf("OUTPUT_LAMP") = {LampPlace}
       /\ Len(lamp.inputs) = 1
       /\ m = 0 => \A w \in 1..Len(wires) : wires[w].targetNodeId # lamp.id
       /\ m = 1 =>
            /\ PlacesOf("OR") = {}
            /\ 1 \in ProductTermSet
            /\ Wired(ProductId(1), lamp.id, 0)
       /\ m >= 2 =>
            /\ PlacesOf("OR") = {OrPlace}
            /\ Len(nodes[OrPlace].inputs) = m
            /\ \A i \in 1..m :
                 /\ i \in ProductTermSet
                 /\ Wired(ProductId(i), nodes[OrPlace].id, i - 1)
            /\ Wired(nodes[OrPlace].id, lamp.id, 0)

\* The ids of the elements of the fragment
FragmentIds == {nodes[v].id : v \in 1..Len(nodes)}

\* How many connections end at input pin of the element of id
FanIn(id, pin) ==
  Cardinality({w \in 1..Len(wires) :
                 wires[w].targetNodeId = id /\ wires[w].targetPinIndex = pin})

\* C30: every fragment generated for terms of numVars <= 4 characters is
\* well formed: the source and the target of each connection are elements
\* of the fragment, each targetPinIndex is below the input count of the
\* target, every input pin of every NOT, AND and OR element is the target of
\* exactly one connection, and the connections form no cycle.
C30_WellFormed ==
  lastOp = "synthesize" =>
    /\ \A w \in 1..Len(wires) :
         /\ wires[w].sourceNodeId \in FragmentIds
         /\ wires[w].targetNodeId \in FragmentIds
    /\ PinIndexOk(nodes, wires)
    /\ \A v \in PlacesOf("NOT") \cup PlacesOf("AND") \cup PlacesOf("OR") :
         \A p \in 1..Len(nodes[v].inputs) : FanIn(nodes[v].id, p - 1) = 1
    /\ Acyclic(nodes, wires)

====
